---- MODULE Spec2Model ----
(***************************************************************************)
(* Model of tagger.go (package ncmdump): the Tagger interface, its two     *)
(* implementations Mp3Tagger (over id3v2.Tag) and FlacTagger (over         *)
(* flac.File and flacvorbis.MetaDataBlockVorbisComment), and NewTagger.    *)
(*                                                                         *)
(* Go strings and []byte values are modelled as sequences of byte values   *)
(* 0..255.  Files are modelled by the tag data they hold: the ID3v2 frames *)
(* in front of the audio stream and the FLAC metadata block chain.  The    *)
(* audio frames themselves are never touched by tagger.go and are left out.*)
(***************************************************************************)
EXTENDS Integers, Sequences, FiniteSets, TLC

VARIABLES file, orig, sess, ret, ioLog

vars == <<file, orig, sess, ret, ioLog>>

(***************************************************************************)
(* Bounds of the model.                                                    *)
(***************************************************************************)
MaxCalls == 3
\* Calls made on one session where two sessions run side by side.
MaxPairCalls == 2

(***************************************************************************)
(* Strings and bytes.                                                      *)
(***************************************************************************)
\* const audioFormatMp3 = "mp3", audioFormatFlac = "flac"
audioFormatMp3 == <<109, 112, 51>>
audioFormatFlac == <<102, 108, 97, 99>>
Str_eq == 61
Str_TITLE == <<84, 73, 84, 76, 69>>
Str_ALBUM == <<65, 76, 66, 85, 77>>
Str_ARTIST == <<65, 82, 84, 73, 83, 84>>
Str_COMMENT == <<67, 79, 77, 77, 69, 78, 84>>
Str_FrontCover == <<70, 114, 111, 110, 116, 32, 99, 111, 118, 101, 114>>
Str_Sentinel == <<45, 45, 62>>
Str_XXX == <<88, 88, 88>>
Str_Vendor == <<102, 108, 97, 99, 118, 111, 114, 98, 105, 115, 32, 48, 46, 49, 46, 48>>
Str_format == <<102, 111, 114, 109, 97, 116, 58, 32>>
Str_notSupportted == <<32, 105, 115, 32, 110, 111, 116, 32, 115, 117, 112, 112, 111, 114, 116, 116, 101, 100>>

\* []byte(s): the bytes of a Go string, in order.
BytesOf(s) == [i \in 1..Len(s) |-> s[i] % 256]

\* utf8.DecodeRuneInString at position i of s: the rune and the number of
\* bytes it takes; a byte that starts no well-formed sequence (a stray
\* continuation byte, a truncated or overlong sequence, a surrogate, a value
\* above U+10FFFF) is utf8.RuneError (U+FFFD) of width 1.
RuneError == 65533

DecodeRune(s, i) ==
    LET b0 == s[i]
        b(j) == s[i + j]
        cont(j) == i + j <= Len(s) /\ s[i + j] >= 128 /\ s[i + j] <= 191
    IN IF b0 < 128 THEN [r |-> b0, n |-> 1]
       ELSE IF b0 >= 194 /\ b0 <= 223 /\ cont(1)
            THEN [r |-> (b0 - 192) * 64 + (b(1) - 128), n |-> 2]
       ELSE IF /\ b0 >= 224 /\ b0 <= 239 /\ cont(1) /\ cont(2)
               /\ (b0 = 224 => b(1) >= 160)
               /\ (b0 = 237 => b(1) <= 159)
            THEN [r |-> (b0 - 224) * 4096 + (b(1) - 128) * 64 + (b(2) - 128), n |-> 3]
       ELSE IF /\ b0 >= 240 /\ b0 <= 244 /\ cont(1) /\ cont(2) /\ cont(3)
               /\ (b0 = 240 => b(1) >= 144)
               /\ (b0 = 244 => b(1) <= 143)
            THEN [r |-> (b0 - 240) * 262144 + (b(1) - 128) * 4096
                        + (b(2) - 128) * 64 + (b(3) - 128), n |-> 4]
       ELSE [r |-> RuneError, n |-> 1]

RECURSIVE RunesFrom(_, _)
\* for _, r := range s: the runes of s from position i on.
RunesFrom(s, i) ==
    IF i > Len(s) THEN <<>>
    ELSE LET d == DecodeRune(s, i) IN <<d.r>> \o RunesFrom(s, i + d.n)

Runes(s) == RunesFrom(s, 1)

\* utf8.EncodeRune
EncodeRune(r) ==
    IF r < 128 THEN <<r>>
    ELSE IF r < 2048 THEN <<192 + (r \div 64), 128 + (r % 64)>>
    ELSE IF r < 65536
         THEN <<224 + (r \div 4096), 128 + ((r \div 64) % 64), 128 + (r % 64)>>
    ELSE <<240 + (r \div 262144), 128 + ((r \div 4096) % 64),
           128 + ((r \div 64) % 64), 128 + (r % 64)>>

\* The case tables of package unicode that strings.ToLower and
\* strings.EqualFold read, for the runes above U+007F.  An entry
\* <<lo, hi, stride, delta>> covers the runes lo, lo + stride, ... up to hi
\* and sends each of them to itself plus delta; no rune is covered twice.
\* LowerRanges is the lower-case column of unicode.CaseRanges: the runes
\* that unicode.ToLower changes.
LowerRanges == <<
    <<192, 214, 1, 32>>, <<216, 222, 1, 32>>, <<256, 302, 2, 1>>,
    <<304, 304, 1, -199>>, <<306, 310, 2, 1>>, <<313, 327, 2, 1>>,
    <<330, 374, 2, 1>>, <<376, 376, 1, -121>>, <<377, 381, 2, 1>>,
    <<385, 385, 1, 210>>, <<386, 388, 2, 1>>, <<390, 390, 1, 206>>,
    <<391, 391, 1, 1>>, <<393, 394, 1, 205>>, <<395, 395, 1, 1>>,
    <<398, 398, 1, 79>>, <<399, 399, 1, 202>>, <<400, 400, 1, 203>>,
    <<401, 401, 1, 1>>, <<403, 403, 1, 205>>, <<404, 404, 1, 207>>,
    <<406, 406, 1, 211>>, <<407, 407, 1, 209>>, <<408, 408, 1, 1>>,
    <<412, 412, 1, 211>>, <<413, 413, 1, 213>>, <<415, 415, 1, 214>>,
    <<416, 420, 2, 1>>, <<422, 422, 1, 218>>, <<423, 423, 1, 1>>,
    <<425, 425, 1, 218>>, <<428, 428, 1, 1>>, <<430, 430, 1, 218>>,
    <<431, 431, 1, 1>>, <<433, 434, 1, 217>>, <<435, 437, 2, 1>>,
    <<439, 439, 1, 219>>, <<440, 440, 1, 1>>, <<444, 444, 1, 1>>,
    <<452, 452, 1, 2>>, <<453, 453, 1, 1>>, <<455, 455, 1, 2>>,
    <<456, 456, 1, 1>>, <<458, 458, 1, 2>>, <<459, 475, 2, 1>>,
    <<478, 494, 2, 1>>, <<497, 497, 1, 2>>, <<498, 500, 2, 1>>,
    <<502, 502, 1, -97>>, <<503, 503, 1, -56>>, <<504, 542, 2, 1>>,
    <<544, 544, 1, -130>>, <<546, 562, 2, 1>>, <<570, 570, 1, 10795>>,
    <<571, 571, 1, 1>>, <<573, 573, 1, -163>>, <<574, 574, 1, 10792>>,
    <<577, 577, 1, 1>>, <<579, 579, 1, -195>>, <<580, 580, 1, 69>>,
    <<581, 581, 1, 71>>, <<582, 590, 2, 1>>, <<880, 882, 2, 1>>,
    <<886, 886, 1, 1>>, <<895, 895, 1, 116>>, <<902, 902, 1, 38>>,
    <<904, 906, 1, 37>>, <<908, 908, 1, 64>>, <<910, 911, 1, 63>>,
    <<913, 929, 1, 32>>, <<931, 939, 1, 32>>, <<975, 975, 1, 8>>,
    <<984, 1006, 2, 1>>, <<1012, 1012, 1, -60>>, <<1015, 1015, 1, 1>>,
    <<1017, 1017, 1, -7>>, <<1018, 1018, 1, 1>>, <<1021, 1023, 1, -130>>,
    <<1024, 1039, 1, 80>>, <<1040, 1071, 1, 32>>, <<1120, 1152, 2, 1>>,
    <<1162, 1214, 2, 1>>, <<1216, 1216, 1, 15>>, <<1217, 1229, 2, 1>>,
    <<1232, 1326, 2, 1>>, <<1329, 1366, 1, 48>>, <<4256, 4293, 1, 7264>>,
    <<4295, 4295, 1, 7264>>, <<4301, 4301, 1, 7264>>,
    <<5024, 5103, 1, 38864>>, <<5104, 5109, 1, 8>>, <<7312, 7354, 1, -3008>>,
    <<7357, 7359, 1, -3008>>, <<7680, 7828, 2, 1>>, <<7838, 7838, 1, -7615>>,
    <<7840, 7934, 2, 1>>, <<7944, 7951, 1, -8>>, <<7960, 7965, 1, -8>>,
    <<7976, 7983, 1, -8>>, <<7992, 7999, 1, -8>>, <<8008, 8013, 1, -8>>,
    <<8025, 8031, 2, -8>>, <<8040, 8047, 1, -8>>, <<8072, 8079, 1, -8>>,
    <<8088, 8095, 1, -8>>, <<8104, 8111, 1, -8>>, <<8120, 8121, 1, -8>>,
    <<8122, 8123, 1, -74>>, <<8124, 8124, 1, -9>>, <<8136, 8139, 1, -86>>,
    <<8140, 8140, 1, -9>>, <<8152, 8153, 1, -8>>, <<8154, 8155, 1, -100>>,
    <<8168, 8169, 1, -8>>, <<8170, 8171, 1, -112>>, <<8172, 8172, 1, -7>>,
    <<8184, 8185, 1, -128>>, <<8186, 8187, 1, -126>>, <<8188, 8188, 1, -9>>,
    <<8486, 8486, 1, -7517>>, <<8490, 8490, 1, -8383>>,
    <<8491, 8491, 1, -8262>>, <<8498, 8498, 1, 28>>, <<8544, 8559, 1, 16>>,
    <<8579, 8579, 1, 1>>, <<9398, 9423, 1, 26>>, <<11264, 11311, 1, 48>>,
    <<11360, 11360, 1, 1>>, <<11362, 11362, 1, -10743>>,
    <<11363, 11363, 1, -3814>>, <<11364, 11364, 1, -10727>>,
    <<11367, 11371, 2, 1>>, <<11373, 11373, 1, -10780>>,
    <<11374, 11374, 1, -10749>>, <<11375, 11375, 1, -10783>>,
    <<11376, 11376, 1, -10782>>, <<11378, 11378, 1, 1>>,
    <<11381, 11381, 1, 1>>, <<11390, 11391, 1, -10815>>,
    <<11392, 11490, 2, 1>>, <<11499, 11501, 2, 1>>, <<11506, 11506, 1, 1>>,
    <<42560, 42604, 2, 1>>, <<42624, 42650, 2, 1>>, <<42786, 42798, 2, 1>>,
    <<42802, 42862, 2, 1>>, <<42873, 42875, 2, 1>>,
    <<42877, 42877, 1, -35332>>, <<42878, 42886, 2, 1>>,
    <<42891, 42891, 1, 1>>, <<42893, 42893, 1, -42280>>,
    <<42896, 42898, 2, 1>>, <<42902, 42920, 2, 1>>,
    <<42922, 42922, 1, -42308>>, <<42923, 42923, 1, -42319>>,
    <<42924, 42924, 1, -42315>>, <<42925, 42925, 1, -42305>>,
    <<42926, 42926, 1, -42308>>, <<42928, 42928, 1, -42258>>,
    <<42929, 42929, 1, -42282>>, <<42930, 42930, 1, -42261>>,
    <<42931, 42931, 1, 928>>, <<42932, 42946, 2, 1>>,
    <<42948, 42948, 1, -48>>, <<42949, 42949, 1, -42307>>,
    <<42950, 42950, 1, -35384>>, <<42951, 42953, 2, 1>>,
    <<42960, 42960, 1, 1>>, <<42966, 42968, 2, 1>>, <<42997, 42997, 1, 1>>,
    <<65313, 65338, 1, 32>>, <<66560, 66599, 1, 40>>,
    <<66736, 66771, 1, 40>>, <<66928, 66964, 2, 39>>,
    <<66929, 66937, 2, 39>>, <<66941, 66953, 2, 39>>,
    <<66957, 66961, 2, 39>>, <<66965, 66965, 1, 39>>,
    <<68736, 68786, 1, 64>>, <<71840, 71871, 1, 32>>,
    <<93760, 93791, 1, 32>>, <<125184, 125217, 1, 34>>
>>

\* FoldRanges names the unicode.SimpleFold orbit of the runes whose orbit is
\* not named by their lower case: an orbit with two lower-case runes (sigma
\* and final sigma, s and long s, ...), the Cherokee letters, which fold to
\* their upper case, and U+0130, which folds with nothing.
FoldRanges == <<
    <<181, 181, 1, 775>>, <<304, 304, 1, 0>>, <<383, 383, 1, -268>>,
    <<837, 837, 1, 116>>, <<962, 962, 1, 1>>, <<976, 976, 1, -30>>,
    <<977, 977, 1, -25>>, <<981, 981, 1, -15>>, <<982, 982, 1, -22>>,
    <<1008, 1008, 1, -54>>, <<1009, 1009, 1, -48>>, <<1013, 1013, 1, -64>>,
    <<5024, 5109, 1, 0>>, <<5112, 5117, 1, -8>>, <<7296, 7296, 1, -6222>>,
    <<7297, 7297, 1, -6221>>, <<7298, 7298, 1, -6212>>,
    <<7299, 7300, 1, -6210>>, <<7301, 7301, 1, -6211>>,
    <<7302, 7302, 1, -6204>>, <<7303, 7303, 1, -6180>>,
    <<7304, 7304, 1, 35267>>, <<7835, 7835, 1, -58>>,
    <<8126, 8126, 1, -7173>>, <<43888, 43967, 1, -38864>>
>>

InRange(e, r) == r >= e[1] /\ r <= e[2] /\ (r - e[1]) % e[3] = 0

\* The rune the table sends r to, or other when no entry covers r.
Shifted(table, r, other) ==
    IF \E i \in DOMAIN table : InRange(table[i], r)
    THEN r + table[CHOOSE i \in DOMAIN table : InRange(table[i], r)][4]
    ELSE other

\* unicode.ToLower: 'A'..'Z' to 'a'..'z' for r <= unicode.MaxASCII, the case
\* table above it.
RuneToLower(r) ==
    IF r < 128 THEN (IF r >= 65 /\ r <= 90 THEN r + 32 ELSE r)
    ELSE Shifted(LowerRanges, r, r)

\* The ASCII path of strings.ToLower: 'A'..'Z' map to 'a'..'z'.
ToLowerByte(b) == IF b >= 65 /\ b <= 90 THEN b + 32 ELSE b

RECURSIVE EncodeAll(_)
EncodeAll(runes) ==
    IF runes = <<>> THEN <<>> ELSE EncodeRune(Head(runes)) \o EncodeAll(Tail(runes))

\* strings.ToLower: bytewise on ASCII text; otherwise strings.Map of
\* unicode.ToLower over the runes, in which each byte that is not part of a
\* well-formed sequence comes out as the encoding of U+FFFD.
ToLower(s) ==
    IF \A i \in 1..Len(s) : s[i] < 128
    THEN [i \in 1..Len(s) |-> ToLowerByte(s[i])]
    ELSE LET rs == Runes(s)
         IN EncodeAll([i \in 1..Len(rs) |-> RuneToLower(rs[i])])

\* The orbit of a rune under unicode.SimpleFold, named by one of its runes
\* (its simple case folding): two runes are in one orbit exactly when they
\* have the same FoldKey.
FoldKey(r) ==
    IF r < 128 THEN RuneToLower(r)
    ELSE Shifted(FoldRanges, r, RuneToLower(r))

\* strings.EqualFold: the same number of runes, rune by rune equal under
\* simple case folding.
EqualFold(a, b) ==
    LET ra == Runes(a)
        rb == Runes(b)
    IN /\ Len(ra) = Len(rb)
       /\ \A i \in 1..Len(ra) : FoldKey(ra[i]) = FoldKey(rb[i])

\* strings.Index(s, "="): the first position of byte b in s, 0 when absent.
IndexByte(s, b) ==
    IF \E i \in 1..Len(s) : s[i] = b
    THEN CHOOSE i \in 1..Len(s) : s[i] = b /\ \A j \in 1..(i - 1) : s[j] # b
    ELSE 0

\* strings.SplitN(s, "=", 2): one part when there is no "=", else the text
\* before the first "=" and everything after it.
SplitN2(s) ==
    LET i == IndexByte(s, Str_eq)
    IN IF i = 0 THEN <<s>> ELSE <<SubSeq(s, 1, i - 1), SubSeq(s, i + 1, Len(s))>>

\* uint32 encodings: little-endian (Vorbis comments), big-endian (pictures).
Uint32L(n) == <<n % 256, (n \div 256) % 256, (n \div 65536) % 256, (n \div 16777216) % 256>>
Uint32B(n) == <<(n \div 16777216) % 256, (n \div 65536) % 256, (n \div 256) % 256, n % 256>>
DecodeL(b) == b[1] + 256 * b[2] + 65536 * b[3] + 16777216 * b[4]
DecodeB(b) == b[4] + 256 * b[3] + 65536 * b[2] + 16777216 * b[1]

(***************************************************************************)
(* Errors.  The nil error is a record too, so that errors compare.         *)
(***************************************************************************)
Nil == [kind |-> "nil", msg |-> <<>>]
Err(k) == [kind |-> k, msg |-> <<>>]

(***************************************************************************)
(* flacvorbis.MetaDataBlockVorbisComment: Vendor and Comments ("KEY=val"). *)
(***************************************************************************)
FlacStreamInfo == 0
FlacVorbisComment == 4
FlacPicture == 6
PictureTypeFrontCover == 3

\* flacvorbis.New()
VorbisNew == [Vendor |-> Str_Vendor, Comments |-> <<>>]

RECURSIVE VorbisGetFrom(_, _, _)
\* The loop of Get: a comment without "=" ends it with ErrorMalformedComment.
VorbisGetFrom(comments, key, i) ==
    IF i > Len(comments) THEN [err |-> Nil, vals |-> <<>>]
    ELSE LET p == SplitN2(comments[i])
         IN IF Len(p) # 2 THEN [err |-> Err("ErrorMalformedComment"), vals |-> <<>>]
            ELSE LET rest == VorbisGetFrom(comments, key, i + 1)
                 IN IF rest.err # Nil THEN rest
                    ELSE IF EqualFold(p[1], key)
                         THEN [err |-> Nil, vals |-> <<p[2]>> \o rest.vals]
                         ELSE rest

\* cmts.Get(key)
VorbisGet(cmts, key) == VorbisGetFrom(cmts.Comments, key, 1)

\* cmts.Add(key, val): the key must be printable ASCII without "=".
VorbisAdd(cmts, key, val) ==
    IF \E i \in 1..Len(key) : key[i] < 32 \/ key[i] > 125 \/ key[i] = Str_eq
    THEN [err |-> Err("ErrorInvalidFieldName"), cmts |-> cmts]
    ELSE [err |-> Nil,
          cmts |-> [cmts EXCEPT !.Comments = Append(@, key \o <<Str_eq>> \o val)]]

PackStr(s) == Uint32L(Len(s)) \o BytesOf(s)

RECURSIVE PackAll(_)
PackAll(comments) ==
    IF comments = <<>> THEN <<>> ELSE PackStr(Head(comments)) \o PackAll(Tail(comments))

\* cmts.Marshal(): vendor, count, then each comment, all length-prefixed.
VorbisMarshal(cmts) ==
    [Type |-> FlacVorbisComment,
     Data |-> PackStr(cmts.Vendor) \o Uint32L(Len(cmts.Comments)) \o PackAll(cmts.Comments)]

\* Reading a uint32 at offset off (bytes consumed so far).
ReadUint32L(data, off) ==
    IF off + 4 > Len(data) THEN [err |-> Err("EOF"), val |-> 0, off |-> off]
    ELSE [err |-> Nil, val |-> DecodeL(SubSeq(data, off + 1, off + 4)), off |-> off + 4]

\* A length-prefixed string: reader.Read fails at the end of the data (even
\* for a length of 0) and a short read is ErrorUnexpEof.
ReadStr(data, off) ==
    LET n == ReadUint32L(data, off)
    IN IF n.err # Nil THEN [err |-> n.err, val |-> <<>>, off |-> off]
       ELSE IF n.off >= Len(data) THEN [err |-> Err("EOF"), val |-> <<>>, off |-> off]
       ELSE IF Len(data) - n.off < n.val
            THEN [err |-> Err("ErrorUnexpEof"), val |-> <<>>, off |-> off]
       ELSE [err |-> Nil, val |-> SubSeq(data, n.off + 1, n.off + n.val),
             off |-> n.off + n.val]

RECURSIVE ReadComments(_, _, _)
ReadComments(data, off, count) ==
    IF count = 0 THEN [err |-> Nil, vals |-> <<>>]
    ELSE LET c == ReadStr(data, off)
         IN IF c.err # Nil THEN [err |-> c.err, vals |-> <<>>]
            ELSE LET rest == ReadComments(data, c.off, count - 1)
                 IN IF rest.err # Nil THEN rest
                    ELSE [err |-> Nil, vals |-> <<c.val>> \o rest.vals]

\* flacvorbis.ParseFromMetaDataBlock(block)
VorbisParse(block) ==
    IF block.Type # FlacVorbisComment
    THEN [err |-> Err("ErrorNotVorbisComment"), cmts |-> VorbisNew]
    ELSE LET v == ReadStr(block.Data, 0)
         IN IF v.err # Nil THEN [err |-> v.err, cmts |-> VorbisNew]
            ELSE LET n == ReadUint32L(block.Data, v.off)
                 IN IF n.err # Nil THEN [err |-> n.err, cmts |-> VorbisNew]
                    ELSE LET cs == ReadComments(block.Data, n.off, n.val)
                         IN IF cs.err # Nil THEN [err |-> cs.err, cmts |-> VorbisNew]
                            ELSE [err |-> Nil,
                                  cmts |-> [Vendor |-> v.val, Comments |-> cs.vals]]

(***************************************************************************)
(* flacpicture.MetadataBlockPicture.                                       *)
(***************************************************************************)
ImageMagicPNG == 137
ImageMagicJPEG == 255
ImageColorDepth == 24

\* image.DecodeConfig as NewFromImageData uses it.  Image payloads are
\* stylised as <<magic, width, height, ...>>: a payload decodes iff it starts
\* with a known magic byte and carries its two dimensions.
ImageDecodes(buf) ==
    Len(buf) >= 3 /\ buf[1] \in {ImageMagicPNG, ImageMagicJPEG}

\* flacpicture.NewFromImageData(pictype, description, buf, mime)
NewFromImageData(pictype, description, buf, mime) ==
    IF ~ImageDecodes(buf)
    THEN [err |-> Err("image: unknown format"), picture |-> <<>>]
    ELSE [err |-> Nil,
          picture |-> <<[PictureType |-> pictype, MIME |-> mime,
                         Description |-> description,
                         Width |-> buf[2], Height |-> buf[3],
                         ColorDepth |-> ImageColorDepth, IndexedColorCount |-> 0,
                         ImageData |-> buf]>>]

\* picture.Marshal(): big-endian fields, MIME, description and image data
\* length-prefixed.
PictureMarshal(p) ==
    [Type |-> FlacPicture,
     Data |-> Uint32B(p.PictureType)
              \o Uint32B(Len(p.MIME)) \o BytesOf(p.MIME)
              \o Uint32B(Len(p.Description)) \o BytesOf(p.Description)
              \o Uint32B(p.Width) \o Uint32B(p.Height)
              \o Uint32B(p.ColorDepth) \o Uint32B(p.IndexedColorCount)
              \o Uint32B(Len(p.ImageData)) \o p.ImageData]

(***************************************************************************)
(* id3v2.Tag: text frames live in a map keyed by frame ID (one frame per   *)
(* ID); COMM and APIC frames live in sequences in which a frame replaces   *)
(* the frame with the same unique identifier, if there is one.             *)
(***************************************************************************)
EmptyTag == [TIT2 |-> <<>>, TALB |-> <<>>, TPE1 |-> <<>>, COMM |-> <<>>, APIC |-> <<>>]

\* tag.CommonID(description)
CommonID(description) ==
    CASE description = "Title" -> "TIT2"
      [] description = "Album/Movie/Show title" -> "TALB"
      [] description = "Artist" -> "TPE1"
      [] description = "Comments" -> "COMM"
      [] description = "Attached picture" -> "APIC"

\* tag.GetFrames(id)
TagGetFrames(tag, id) == tag[id]

\* tag.GetTextFrame(id).Text: the empty string when there is no such frame.
TagText(tag, id) == IF tag[id] = <<>> THEN <<>> ELSE tag[id][1].Text

\* tag.AddTextFrame(id, encoding, text): AddFrame on a text frame ID stores
\* the frame in the map, replacing the one that was there.
TagAddTextFrame(tag, id, text) == [tag EXCEPT ![id] = <<[Text |-> text]>>]

\* PictureFrame.UniqueIdentifier and CommentFrame.UniqueIdentifier.
PictureUID(pf) == <<pf.PictureType, pf.Description>>
CommentUID(cf) == <<cf.Language, cf.Description>>

\* sequence.AddFrame: replace the frame with the same identifier in place,
\* else append.
SequenceAddPicture(frames, pf) ==
    IF \E i \in 1..Len(frames) : PictureUID(frames[i]) = PictureUID(pf)
    THEN LET i == CHOOSE i \in 1..Len(frames) :
                     /\ PictureUID(frames[i]) = PictureUID(pf)
                     /\ \A j \in 1..(i - 1) : PictureUID(frames[j]) # PictureUID(pf)
         IN [frames EXCEPT ![i] = pf]
    ELSE Append(frames, pf)

SequenceAddComment(frames, cf) ==
    IF \E i \in 1..Len(frames) : CommentUID(frames[i]) = CommentUID(cf)
    THEN LET i == CHOOSE i \in 1..Len(frames) :
                     /\ CommentUID(frames[i]) = CommentUID(cf)
                     /\ \A j \in 1..(i - 1) : CommentUID(frames[j]) # CommentUID(cf)
         IN [frames EXCEPT ![i] = cf]
    ELSE Append(frames, cf)

\* tag.AddAttachedPicture(pf) and tag.AddCommentFrame(cf)
TagAddAttachedPicture(tag, pf) == [tag EXCEPT !.APIC = SequenceAddPicture(@, pf)]
TagAddCommentFrame(tag, cf) == [tag EXCEPT !.COMM = SequenceAddComment(@, cf)]

\* tag.Count() = 0: WriteTo then writes no ID3 header at all.
TagHasFrames(tag) == tag # EmptyTag

(***************************************************************************)
(* Files.  kind is the container the file holds ("mp3", "flac") or         *)
(* "missing"; tag is the ID3v2 tag in front of it; meta the FLAC block     *)
(* chain of [Type, Data] blocks.                                           *)
(***************************************************************************)
NoFile == [kind |-> "missing", tag |-> EmptyTag, meta |-> <<>>]

\* id3v2.Open(path, Options{Parse: true}): the frames in front of the file,
\* none when the file has no ID3 header.
Id3Open(f) ==
    IF f.kind = "missing" THEN [err |-> Err("ErrOpen"), tag |-> EmptyTag]
    ELSE [err |-> Nil, tag |-> f.tag]

\* flac.ParseFile(path): the file must start with the fLaC marker.
FlacParseFile(f) ==
    IF f.kind = "missing" THEN [err |-> Err("ErrOpen"), meta |-> <<>>]
    ELSE IF f.kind # "flac" \/ TagHasFrames(f.tag)
         THEN [err |-> Err("ErrorNoFLACHeader"), meta |-> <<>>]
    ELSE [err |-> Nil, meta |-> f.meta]

(***************************************************************************)
(* Taggers.  One record shape serves both implementations:                 *)
(*   Mp3Tagger  {tag}              kind = "mp3",  handle = tag's open file *)
(*   FlacTagger {path, file, cmts} kind = "flac", meta = file.Meta         *)
(***************************************************************************)
NoTagger == [kind |-> "none", path |-> "none", tag |-> EmptyTag, handle |-> FALSE,
             meta |-> <<>>, cmts |-> [Vendor |-> <<>>, Comments |-> <<>>]]

\* NewMp3Tagger(path)
NewMp3Tagger(path, f) ==
    LET o == Id3Open(f)
    IN IF o.err # Nil THEN [err |-> o.err, tagger |-> NoTagger]
       ELSE [err |-> Nil,
             tagger |-> [NoTagger EXCEPT !.kind = "mp3", !.path = path,
                                         !.tag = o.tag, !.handle = TRUE]]

\* The scan of NewFlacTagger without its break: the last block of type
\* VorbisComment is the one kept.
Mut_FirstComment_Last(meta) ==
    IF \E i \in 1..Len(meta) : meta[i].Type = FlacVorbisComment
    THEN LET i == CHOOSE i \in 1..Len(meta) :
                     /\ meta[i].Type = FlacVorbisComment
                     /\ \A j \in (i + 1)..Len(meta) : meta[j].Type # FlacVorbisComment
         IN <<meta[i]>>
    ELSE <<>>

\* The scan of NewFlacTagger: the first block of type VorbisComment, if any.
FirstComment(meta) ==
    IF \E i \in 1..Len(meta) : meta[i].Type = FlacVorbisComment
    THEN LET i == CHOOSE i \in 1..Len(meta) :
                     /\ meta[i].Type = FlacVorbisComment
                     /\ \A j \in 1..(i - 1) : meta[j].Type # FlacVorbisComment
         IN <<meta[i]>>
    ELSE <<>>

\* NewFlacTagger that keeps the path in one place for every tagger: each
\* tagger is given the path the first file was opened at.
Mut_NewFlacTagger_SharedPath(path, f) ==
    LET p == FlacParseFile(f)
    IN IF p.err # Nil THEN [err |-> p.err, tagger |-> NoTagger]
       ELSE LET cmtmeta == FirstComment(p.meta)
                c == IF cmtmeta # <<>> THEN VorbisParse(cmtmeta[1])
                     ELSE [err |-> Nil, cmts |-> VorbisNew]
            IN IF c.err # Nil THEN [err |-> c.err, tagger |-> NoTagger]
               ELSE [err |-> Nil,
                     tagger |-> [NoTagger EXCEPT !.kind = "flac", !.path = "p1",
                                                 !.meta = p.meta, !.cmts = c.cmts]]

\* NewFlacTagger(path)
NewFlacTagger(path, f) ==
    LET p == FlacParseFile(f)
    IN IF p.err # Nil THEN [err |-> p.err, tagger |-> NoTagger]
       ELSE LET cmtmeta == FirstComment(p.meta)
                c == IF cmtmeta # <<>> THEN VorbisParse(cmtmeta[1])
                     ELSE [err |-> Nil, cmts |-> VorbisNew]
            IN IF c.err # Nil THEN [err |-> c.err, tagger |-> NoTagger]
               ELSE [err |-> Nil,
                     tagger |-> [NoTagger EXCEPT !.kind = "flac", !.path = path,
                                                 !.meta = p.meta, !.cmts = c.cmts]]

\* Mp3Tagger.SetCover(buf, mime)
Mp3Tagger_SetCover(m, buf, mime) ==
    [err |-> Nil, wrote |-> FALSE,
     t |-> [m EXCEPT !.tag = TagAddAttachedPicture(@,
                [Encoding |-> "ISO", MimeType |-> mime,
                 PictureType |-> PictureTypeFrontCover,
                 Description |-> Str_FrontCover, Picture |-> buf])]]

\* Mp3Tagger.SetCoverUrl that labels the URL payload as an image.
Mut_Mp3SetCoverUrl_ImageMime(m, coverUrl) ==
    [err |-> Nil, wrote |-> FALSE,
     t |-> [m EXCEPT !.tag = TagAddAttachedPicture(@,
                [Encoding |-> "ISO", MimeType |-> <<105, 109, 97, 103, 101, 47, 112, 110, 103>>,
                 PictureType |-> PictureTypeFrontCover,
                 Description |-> Str_FrontCover, Picture |-> BytesOf(coverUrl)])]]

\* Mp3Tagger.SetCoverUrl(coverUrl)
Mp3Tagger_SetCoverUrl(m, coverUrl) ==
    [err |-> Nil, wrote |-> FALSE,
     t |-> [m EXCEPT !.tag = TagAddAttachedPicture(@,
                [Encoding |-> "ISO", MimeType |-> Str_Sentinel,
                 PictureType |-> PictureTypeFrontCover,
                 Description |-> Str_FrontCover, Picture |-> BytesOf(coverUrl)])]]

\* Mp3Tagger.SetTitle without the presence check: the title is always set.
Mut_Mp3SetTitle_Overwrite(m, title) ==
    [err |-> Nil, wrote |-> FALSE,
     t |-> [m EXCEPT !.tag = TagAddTextFrame(@, CommonID("Title"), title)]]

\* Mp3Tagger.SetTitle(title)
Mp3Tagger_SetTitle(m, title) ==
    [err |-> Nil, wrote |-> FALSE,
     t |-> IF TagText(m.tag, CommonID("Title")) = <<>>
           THEN [m EXCEPT !.tag = TagAddTextFrame(@, CommonID("Title"), title)]
           ELSE m]

\* Mp3Tagger.SetAlbum whose write was copied from SetTitle: the album text is
\* stored with tag.SetTitle.
Mut_Mp3SetAlbum_SetsTitle(m, album) ==
    [err |-> Nil, wrote |-> FALSE,
     t |-> IF TagText(m.tag, CommonID("Album/Movie/Show title")) = <<>>
           THEN [m EXCEPT !.tag = TagAddTextFrame(@, CommonID("Title"), album)]
           ELSE m]

\* Mp3Tagger.SetAlbum(album)
Mp3Tagger_SetAlbum(m, album) ==
    [err |-> Nil, wrote |-> FALSE,
     t |-> IF TagText(m.tag, CommonID("Album/Movie/Show title")) = <<>>
           THEN [m EXCEPT !.tag = TagAddTextFrame(@, CommonID("Album/Movie/Show title"), album)]
           ELSE m]

RECURSIVE SetArtistEach(_, _)
\* The loop of Mp3Tagger.SetArtist: tag.SetArtist(artist) for each artist.
SetArtistEach(tag, artists) ==
    IF artists = <<>> THEN tag
    ELSE SetArtistEach(TagAddTextFrame(tag, CommonID("Artist"), Head(artists)), Tail(artists))

\* Mp3Tagger.SetArtist that marks the field as handled: given no artists it
\* stores an artist frame with empty text.
Mut_Mp3SetArtist_MarksEmpty(m, artists) ==
    [err |-> Nil, wrote |-> FALSE,
     t |-> IF Len(TagGetFrames(m.tag, CommonID("Artist"))) = 0
           THEN [m EXCEPT !.tag = IF artists = <<>>
                                  THEN TagAddTextFrame(@, CommonID("Artist"), <<>>)
                                  ELSE SetArtistEach(@, artists)]
           ELSE m]

\* Mp3Tagger.SetArtist with the presence check of SetTitle and SetAlbum: the
\* artists are written when tag.Artist() is the empty string.
Mut_Mp3SetArtist_ByText(m, artists) ==
    [err |-> Nil, wrote |-> FALSE,
     t |-> IF TagText(m.tag, CommonID("Artist")) = <<>>
           THEN [m EXCEPT !.tag = SetArtistEach(@, artists)]
           ELSE m]

\* Mp3Tagger.SetArtist(artists)
Mp3Tagger_SetArtist(m, artists) ==
    [err |-> Nil, wrote |-> FALSE,
     t |-> IF Len(TagGetFrames(m.tag, CommonID("Artist"))) = 0
           THEN [m EXCEPT !.tag = SetArtistEach(@, artists)]
           ELSE m]

\* Mp3Tagger.SetComment(comment)
Mp3Tagger_SetComment(m, comment) ==
    [err |-> Nil, wrote |-> FALSE,
     t |-> IF Len(TagGetFrames(m.tag, CommonID("Comments"))) = 0
           THEN [m EXCEPT !.tag = TagAddCommentFrame(@,
                    [Encoding |-> "ISO", Language |-> Str_XXX,
                     Description |-> <<>>, Text |-> comment])]
           ELSE m]

\* Mp3Tagger.Save(): err := tag.Save(); err = tag.Close(); return err.
\* saveOut is what tag.Save() does ("ok": the file is rewritten; "failEarly":
\* it fails before the rewritten file replaces the original; "failLate": it
\* fails after that); closeErr is what tag.Close() returns.  Once the tag's
\* file has been closed (by an earlier Save) both steps fail on the closed
\* file and nothing is written.
Mp3Tagger_Save(m, saveOut, closeErr) ==
    IF ~m.handle
    THEN [err |-> Err("ErrClosed"),
          t |-> m,
          wrote |-> FALSE,
          io |-> [save |-> Err("ErrClosed"), close |-> Err("ErrClosed"),
                  saveRan |-> TRUE, closeRan |-> TRUE]]
    ELSE LET saveErr == IF saveOut = "ok" THEN Nil ELSE Err("ErrSave")
         IN [err |-> closeErr,
             t |-> [m EXCEPT !.handle = FALSE],
             wrote |-> saveOut # "failEarly",
             io |-> [save |-> saveErr, close |-> closeErr,
                     saveRan |-> TRUE, closeRan |-> TRUE]]

\* FlacTagger.SetCover without the err == nil check: a picture block is
\* appended whether or not the image decoded.
Mut_FlacSetCover_AppendsAnyway(f, buf, mime) ==
    LET p == NewFromImageData(PictureTypeFrontCover, Str_FrontCover, buf, mime)
        raw == [PictureType |-> PictureTypeFrontCover, MIME |-> mime,
                Description |-> Str_FrontCover, Width |-> 0, Height |-> 0,
                ColorDepth |-> 0, IndexedColorCount |-> 0, ImageData |-> buf]
    IN [err |-> p.err, wrote |-> FALSE,
        t |-> [f EXCEPT !.meta = Append(@, PictureMarshal(IF p.err = Nil THEN p.picture[1]
                                                           ELSE raw))]]

\* FlacTagger.SetCover(buf, mime)
FlacTagger_SetCover(f, buf, mime) ==
    LET p == NewFromImageData(PictureTypeFrontCover, Str_FrontCover, buf, mime)
    IN [err |-> p.err, wrote |-> FALSE,
        t |-> IF p.err = Nil
              THEN [f EXCEPT !.meta = Append(@, PictureMarshal(p.picture[1]))]
              ELSE f]

\* FlacTagger.SetCoverUrl(coverUrl)
FlacTagger_SetCoverUrl(f, coverUrl) ==
    LET picture == [PictureType |-> PictureTypeFrontCover, MIME |-> Str_Sentinel,
                    Description |-> Str_FrontCover,
                    Width |-> 0, Height |-> 0, ColorDepth |-> 0,
                    IndexedColorCount |-> 0, ImageData |-> BytesOf(coverUrl)]
    IN [err |-> Nil, wrote |-> FALSE, t |-> [f EXCEPT !.meta = Append(@, PictureMarshal(picture))]]

\* The FLAC field setter without the len(values) == 0 check: it always adds.
Mut_FlacSetField_AlwaysAdd(f, key, val) ==
    LET g == VorbisGet(f.cmts, key)
    IN IF g.err # Nil THEN [err |-> g.err, wrote |-> FALSE, t |-> f]
       ELSE LET a == VorbisAdd(f.cmts, key, val)
            IN [err |-> a.err, wrote |-> FALSE, t |-> [f EXCEPT !.cmts = a.cmts]]

\* The FLAC field setter with the presence check of the MP3 title: a key
\* whose first value is the empty string counts as absent.
Mut_FlacSetField_EmptyIsAbsent(f, key, val) ==
    LET g == VorbisGet(f.cmts, key)
    IN IF g.err # Nil THEN [err |-> g.err, wrote |-> FALSE, t |-> f]
       ELSE IF Len(g.vals) = 0 \/ g.vals[1] = <<>>
            THEN LET a == VorbisAdd(f.cmts, key, val)
                 IN [err |-> a.err, wrote |-> FALSE, t |-> [f EXCEPT !.cmts = a.cmts]]
       ELSE [err |-> Nil, wrote |-> FALSE, t |-> f]

\* The shape shared by FlacTagger.SetTitle and FlacTagger.SetAlbum.
FlacSetField(f, key, val) ==
    LET g == VorbisGet(f.cmts, key)
    IN IF g.err # Nil THEN [err |-> g.err, wrote |-> FALSE, t |-> f]
       ELSE IF Len(g.vals) = 0
            THEN LET a == VorbisAdd(f.cmts, key, val)
                 IN [err |-> a.err, wrote |-> FALSE, t |-> [f EXCEPT !.cmts = a.cmts]]
       ELSE [err |-> Nil, wrote |-> FALSE, t |-> f]

\* FlacTagger.SetTitle that saves the file as soon as it has set the title.
Mut_FlacSetTitle_Eager(f, title) ==
    [FlacSetField(f, Str_TITLE, title) EXCEPT !.wrote = TRUE]

\* FlacTagger.SetTitle(title)
FlacTagger_SetTitle(f, title) == FlacSetField(f, Str_TITLE, title)

\* FlacTagger.SetAlbum(album)
FlacTagger_SetAlbum(f, album) == FlacSetField(f, Str_ALBUM, album)

RECURSIVE AddArtistEach(_, _)
\* The loop of FlacTagger.SetArtist: the result of each Add is dropped.
AddArtistEach(cmts, artists) ==
    IF artists = <<>> THEN cmts
    ELSE AddArtistEach(VorbisAdd(cmts, Str_ARTIST, Head(artists)).cmts, Tail(artists))

\* FlacTagger.SetArtist that takes a failed query for an absent field: the
\* error of Get is dropped and the artists are added.
Mut_FlacSetArtist_ErrIsAbsent(f, artists) ==
    LET g == VorbisGet(f.cmts, Str_ARTIST)
    IN IF Len(g.vals) = 0
       THEN [err |-> Nil, wrote |-> FALSE, t |-> [f EXCEPT !.cmts = AddArtistEach(@, artists)]]
       ELSE [err |-> Nil, wrote |-> FALSE, t |-> f]

\* FlacTagger.SetArtist(artists)
FlacTagger_SetArtist(f, artists) ==
    LET g == VorbisGet(f.cmts, Str_ARTIST)
    IN IF g.err # Nil THEN [err |-> g.err, wrote |-> FALSE, t |-> f]
       ELSE IF Len(g.vals) = 0
            THEN [err |-> Nil, wrote |-> FALSE, t |-> [f EXCEPT !.cmts = AddArtistEach(@, artists)]]
       ELSE [err |-> Nil, wrote |-> FALSE, t |-> f]

\* FlacTagger.SetComment that stores the comment as the other setters do.
Mut_FlacSetComment_Stores(f, comment) == FlacSetField(f, Str_COMMENT, comment)

\* FlacTagger.SetComment(string)
FlacTagger_SetComment(f, comment) == [err |-> Nil, wrote |-> FALSE, t |-> f]

\* FlacTagger.Save that appends the comment block and returns nil without
\* calling file.Save.
Mut_FlacSave_NoWrite(f, ioErr) ==
    [err |-> Nil,
     t |-> [f EXCEPT !.meta = Append(@, VorbisMarshal(f.cmts))],
     wrote |-> FALSE,
     io |-> [save |-> Nil, close |-> Nil, saveRan |-> FALSE, closeRan |-> FALSE]]

\* FlacTagger.Save that puts the new comment block in the place of the one
\* the file was loaded with, when there is one, instead of appending it.
Mut_FlacSave_ReplaceComment(f, ioErr) ==
    LET res == VorbisMarshal(f.cmts)
        has == \E i \in 1..Len(f.meta) : f.meta[i].Type = FlacVorbisComment
        at == CHOOSE i \in 1..Len(f.meta) : f.meta[i].Type = FlacVorbisComment
    IN [err |-> ioErr,
        t |-> [f EXCEPT !.meta = IF has THEN [@ EXCEPT ![at] = res] ELSE Append(@, res)],
        wrote |-> ioErr = Nil,
        io |-> [save |-> ioErr, close |-> Nil, saveRan |-> TRUE, closeRan |-> FALSE]]

\* FlacTagger.Save(): append the marshalled comments, then file.Save(path).
\* ioErr is what file.Save returns; on failure the file is left as it was.
FlacTagger_Save(f, ioErr) ==
    LET res == VorbisMarshal(f.cmts)
    IN [err |-> ioErr,
        t |-> [f EXCEPT !.meta = Append(@, res)],
        wrote |-> ioErr = Nil,
        io |-> [save |-> ioErr, close |-> Nil, saveRan |-> TRUE, closeRan |-> FALSE]]

\* The artist values a tagger holds: the texts of its TPE1 frames, or the
\* values of its ARTIST comments (the key under Unicode case folding).
Artists(t) ==
    IF t.kind = "mp3" THEN [i \in 1..Len(t.tag.TPE1) |-> t.tag.TPE1[i].Text]
    ELSE LET keyed == SelectSeq(t.cmts.Comments,
                        LAMBDA c : /\ IndexByte(c, Str_eq) > 0
                                   /\ EqualFold(SubSeq(c, 1, IndexByte(c, Str_eq) - 1), Str_ARTIST))
         IN [i \in 1..Len(keyed) |-> SubSeq(keyed[i], IndexByte(keyed[i], Str_eq) + 1, Len(keyed[i]))]


(***************************************************************************)
(* The state machine.                                                      *)
(*   file[p]   what path p holds                                           *)
(*   orig      file as it was at the start (never changes)                 *)
(*   sess[s]   the caller's session s: its tagger and, for stating the     *)
(*             properties, the tagger as it was loaded, whether it was     *)
(*             loaded after a Save on its path, and what it has been asked *)
(*             so far: the operations called, the successful cover calls,  *)
(*             the setTitle arguments, the last setArtist call made while  *)
(*             it held no artist, and what the last Save returned; and     *)
(*             alone, the same calls made with no other session at work:   *)
(*             the tagger                                                  *)
(*             they give and the file they leave (<<>> while it is as at   *)
(*             the start)                                                  *)
(*   ret       the last call: operation, arguments, returned error, the    *)
(*             session as it was before the call, the I/O steps it ran     *)
(*   ioLog     the <<path, "read" | "write">> file accesses made so far    *)
(* Every method of a tagger can be called at any time, Save included and   *)
(* more than once; ncalls counts the calls made on a session and nsaves    *)
(* the Save calls among them.                                              *)
(***************************************************************************)
NoIo == [save |-> Nil, close |-> Nil, saveRan |-> FALSE, closeRan |-> FALSE]

NoSession == [state |-> "none", t |-> NoTagger, loaded |-> NoTagger, ncalls |-> 0,
              nsaves |-> 0,
              called |-> {}, coverCalls |-> <<>>, titleArgs |-> <<>>,
              artistFresh |-> <<>>, saved |-> <<>>, lateLoad |-> FALSE,
              alone |-> [t |-> NoTagger, file |-> <<>>]]

NoRet == [op |-> "none", s |-> "none", arg |-> <<>>, err |-> Nil,
          pre |-> NoSession, io |-> NoIo, wrote |-> FALSE, iface |-> "-"]

\* What a write of tagger t leaves in the file that held f: id3v2 rewrites
\* the tag in front of the file, flac.File.Save rewrites the whole file from
\* the block chain.
Persist(t, f) ==
    IF t.kind = "mp3" THEN [f EXCEPT !.tag = t.tag]
    ELSE [kind |-> "flac", tag |-> EmptyTag, meta |-> t.meta]

\* NewTagger without strings.ToLower: the format is compared as given.
Mut_NewTagger_CaseSensitive(input, format, f) ==
    IF format = audioFormatMp3
    THEN LET r == NewMp3Tagger(input, f)
         IN [err |-> r.err, tagger |-> r.tagger, iface |-> "*Mp3Tagger",
             io |-> {<<input, "read">>}]
    ELSE IF format = audioFormatFlac
    THEN LET r == NewFlacTagger(input, f)
         IN [err |-> r.err, tagger |-> r.tagger, iface |-> "*FlacTagger",
             io |-> {<<input, "read">>}]
    ELSE [err |-> [kind |-> "errors.New",
                   msg |-> Str_format \o format \o Str_notSupportted],
          tagger |-> NoTagger, iface |-> "nil", io |-> {}]

\* NewTagger(input, format) on a path that holds f.
NewTagger(input, format, f) ==
    LET lower == ToLower(format)
    IN IF lower = audioFormatMp3
       THEN LET r == NewMp3Tagger(input, f)
            IN [err |-> r.err, tagger |-> r.tagger, iface |-> "*Mp3Tagger",
                io |-> {<<input, "read">>}]
       ELSE IF lower = audioFormatFlac
       THEN LET r == NewFlacTagger(input, f)
            IN [err |-> r.err, tagger |-> r.tagger, iface |-> "*FlacTagger",
                io |-> {<<input, "read">>}]
       ELSE [err |-> [kind |-> "errors.New",
                      msg |-> Str_format \o format \o Str_notSupportted],
             tagger |-> NoTagger, iface |-> "nil", io |-> {}]

\* The file the calls of a session have left when made alone: the file at
\* path as it was at the start, or what their last write made of it.
AloneFile(a, path) ==
    IF a.file # <<>> THEN a.file[1]
    ELSE IF path \in DOMAIN orig THEN orig[path] ELSE NoFile

\* The calls of a session made alone, after one more call that returned
\* ra = [err, t, wrote] there.
AloneAfter(a, ra) ==
    [t |-> ra.t,
     file |-> IF ra.wrote THEN <<Persist(ra.t, AloneFile(a, ra.t.path))>> ELSE a.file]

\* What a NewTagger call that returned r = [err, tagger, iface, io], and ra
\* when made alone, leaves with the caller that holds the result as session s.
Constructed(s, input, format, r, ra) ==
    LET alone == IF ra.err = Nil THEN [sess[s].alone EXCEPT !.t = ra.tagger]
                 ELSE sess[s].alone
    IN /\ sess' = [sess EXCEPT ![s] =
                     IF r.err = Nil
                     THEN [NoSession EXCEPT !.state = "held", !.t = r.tagger,
                                            !.loaded = r.tagger,
                                            !.lateLoad = (<<input, "write">> \in ioLog),
                                            !.alone = alone]
                     ELSE [@ EXCEPT !.alone = alone]]
       /\ ret' = [NoRet EXCEPT !.op = "NewTagger", !.s = s,
                               !.arg = <<input, format>>, !.err = r.err,
                               !.pre = sess[s], !.iface = r.iface]
       /\ ioLog' = ioLog \cup r.io
       /\ UNCHANGED <<file, orig>>

\* A call of NewTagger by the caller that will hold the result as session s.
CallNewTagger(s, input, format) ==
    /\ sess[s].state = "none"
    /\ Constructed(s, input, format,
                   NewTagger(input, format, file[input]),
                   NewTagger(input, format, AloneFile(sess[s].alone, input)))

\* A setter call on session s that returned r = [err, t, wrote], and ra when
\* made alone.
CallSetter(s, op, arg, r, ra) ==
    /\ sess' = [sess EXCEPT ![s] =
                 [@ EXCEPT !.t = r.t,
                           !.alone = AloneAfter(@, ra),
                           !.ncalls = @ + 1,
                           !.called = @ \cup {op},
                           !.artistFresh = IF op = "SetArtist" /\ Artists(sess[s].t) = <<>>
                                           THEN <<[arg |-> arg, err |-> r.err]>> ELSE @,
                           !.coverCalls = IF op \in {"SetCover", "SetCoverUrl"} /\ r.err = Nil
                                          THEN Append(@, [op |-> op, arg |-> arg]) ELSE @,
                           !.titleArgs = IF op = "SetTitle" THEN Append(@, arg) ELSE @]]
    /\ ret' = [NoRet EXCEPT !.op = op, !.s = s, !.arg = arg, !.err = r.err,
                            !.pre = sess[s], !.wrote = r.wrote]
    /\ file' = IF r.wrote THEN [file EXCEPT ![r.t.path] = Persist(r.t, @)] ELSE file
    /\ ioLog' = IF r.wrote THEN ioLog \cup {<<r.t.path, "write">>} ELSE ioLog
    /\ UNCHANGED orig

\* A Save call on session s that returned r = [err, t, wrote, io], and ra
\* when made alone.
CallSave(s, r, ra) ==
    /\ sess' = [sess EXCEPT ![s] = [@ EXCEPT !.t = r.t,
                                             !.ncalls = @ + 1,
                                             !.nsaves = @ + 1,
                                             !.alone = AloneAfter(@, ra),
                                             !.saved = <<[err |-> r.err, io |-> r.io,
                                                          wrote |-> r.wrote]>>]]
    /\ ret' = [NoRet EXCEPT !.op = "Save", !.s = s, !.err = r.err,
                            !.pre = sess[s], !.io = r.io, !.wrote = r.wrote]
    /\ file' = IF r.wrote THEN [file EXCEPT ![r.t.path] = Persist(r.t, @)] ELSE file
    /\ ioLog' = IF r.io.saveRan /\ r.io.save # Err("ErrClosed")
                THEN ioLog \cup {<<r.t.path, "write">>} ELSE ioLog
    /\ UNCHANGED orig

\* The caller of session s holds a tagger of the given kind: NewTagger has
\* returned it.  Nothing in the code stops a call on a tagger that has been
\* saved, so having saved does not matter here.
HasTagger(s, kind) ==
    /\ sess[s].state = "held"
    /\ sess[s].t.kind = kind

MayCall(s, kind) ==
    /\ HasTagger(s, kind)
    /\ sess[s].ncalls < MaxCalls

Mp3SetCover(s, buf, mime) ==
    /\ MayCall(s, "mp3")
    /\ CallSetter(s, "SetCover", [buf |-> buf, mime |-> mime],
                  Mp3Tagger_SetCover(sess[s].t, buf, mime),
                  Mp3Tagger_SetCover(sess[s].alone.t, buf, mime))

Mp3SetCoverUrl(s, coverUrl) ==
    /\ MayCall(s, "mp3")
    /\ CallSetter(s, "SetCoverUrl", coverUrl, Mp3Tagger_SetCoverUrl(sess[s].t, coverUrl),
                  Mp3Tagger_SetCoverUrl(sess[s].alone.t, coverUrl))

Mp3SetTitle(s, title) ==
    /\ MayCall(s, "mp3")
    /\ CallSetter(s, "SetTitle", title, Mp3Tagger_SetTitle(sess[s].t, title),
                  Mp3Tagger_SetTitle(sess[s].alone.t, title))

Mp3SetAlbum(s, album) ==
    /\ MayCall(s, "mp3")
    /\ CallSetter(s, "SetAlbum", album, Mp3Tagger_SetAlbum(sess[s].t, album),
                  Mp3Tagger_SetAlbum(sess[s].alone.t, album))

Mp3SetArtist(s, artists) ==
    /\ MayCall(s, "mp3")
    /\ CallSetter(s, "SetArtist", artists, Mp3Tagger_SetArtist(sess[s].t, artists),
                  Mp3Tagger_SetArtist(sess[s].alone.t, artists))

Mp3SetComment(s, comment) ==
    /\ MayCall(s, "mp3")
    /\ CallSetter(s, "SetComment", comment, Mp3Tagger_SetComment(sess[s].t, comment),
                  Mp3Tagger_SetComment(sess[s].alone.t, comment))

Mp3Save(s, saveOut, closeErr) ==
    /\ MayCall(s, "mp3")
    /\ CallSave(s, Mp3Tagger_Save(sess[s].t, saveOut, closeErr),
                  Mp3Tagger_Save(sess[s].alone.t, saveOut, closeErr))

FlacSetCover(s, buf, mime) ==
    /\ MayCall(s, "flac")
    /\ CallSetter(s, "SetCover", [buf |-> buf, mime |-> mime],
                  FlacTagger_SetCover(sess[s].t, buf, mime),
                  FlacTagger_SetCover(sess[s].alone.t, buf, mime))

FlacSetCoverUrl(s, coverUrl) ==
    /\ MayCall(s, "flac")
    /\ CallSetter(s, "SetCoverUrl", coverUrl, FlacTagger_SetCoverUrl(sess[s].t, coverUrl),
                  FlacTagger_SetCoverUrl(sess[s].alone.t, coverUrl))

FlacSetTitle(s, title) ==
    /\ MayCall(s, "flac")
    /\ CallSetter(s, "SetTitle", title, FlacTagger_SetTitle(sess[s].t, title),
                  FlacTagger_SetTitle(sess[s].alone.t, title))

FlacSetAlbum(s, album) ==
    /\ MayCall(s, "flac")
    /\ CallSetter(s, "SetAlbum", album, FlacTagger_SetAlbum(sess[s].t, album),
                  FlacTagger_SetAlbum(sess[s].alone.t, album))

FlacSetArtist(s, artists) ==
    /\ MayCall(s, "flac")
    /\ CallSetter(s, "SetArtist", artists, FlacTagger_SetArtist(sess[s].t, artists),
                  FlacTagger_SetArtist(sess[s].alone.t, artists))

FlacSetComment(s, comment) ==
    /\ MayCall(s, "flac")
    /\ CallSetter(s, "SetComment", comment, FlacTagger_SetComment(sess[s].t, comment),
                  FlacTagger_SetComment(sess[s].alone.t, comment))

FlacSave(s, ioErr) ==
    /\ MayCall(s, "flac")
    /\ CallSave(s, FlacTagger_Save(sess[s].t, ioErr),
                  FlacTagger_Save(sess[s].alone.t, ioErr))

(***************************************************************************)
(* The files the model starts from and the arguments callers pass.         *)
(***************************************************************************)
Str_O == <<79>>
Str_L == <<76>>
Str_x == <<120>>
Str_y == <<121>>
Str_aEQb == <<97, 61, 98>>
Str_c == <<99>>
Str_A == <<65>>
Str_B == <<66>>
Str_C == <<67>>
Str_P == <<80>>
Str_Q == <<81>>
Str_eng == <<101, 110, 103>>
Str_png == <<105, 109, 97, 103, 101, 47, 112, 110, 103>>
Str_url1 == <<117, 58, 49>>
Str_url2 == <<117, 58, 50>>
Str_title == <<116, 105, 116, 108, 101>>
Str_ogg == <<111, 103, 103>>
Str_MP3 == <<77, 80, 51>>
Str_Mp3 == <<77, 112, 51>>
Str_FLAC == <<70, 76, 65, 67>>
Str_fLaC == <<102, 76, 97, 67>>
Str_mp3x == <<109, 112, 51, 32>>
\* "Ä" (U+00C4), "FLAC" with a stray byte 0xFF after it, and "ARTIſT" with
\* U+017F LATIN SMALL LETTER LONG S, which folds to "s".
Str_Auml == <<195, 132>>
Str_FLACxFF == <<70, 76, 65, 67, 255>>
Str_ARTIlongsT == <<65, 82, 84, 73, 197, 191, 84>>

ImgOld == <<137, 9, 9, 1>>
ImgPng == <<137, 1, 1, 7>>
ImgJpg == <<255, 2, 2>>
ImgJunk == <<0>>

KV(key, val) == key \o <<Str_eq>> \o val

OldFrontCover == [Encoding |-> "ISO", MimeType |-> Str_png,
                  PictureType |-> PictureTypeFrontCover,
                  Description |-> Str_FrontCover, Picture |-> ImgOld]
OldBackCover == [Encoding |-> "ISO", MimeType |-> Str_png,
                 PictureType |-> PictureTypeFrontCover + 1,
                 Description |-> <<>>, Picture |-> ImgOld]

\* MP3 files: without a tag; fully tagged; tagged with frames of empty text.
Mp3Bare == [kind |-> "mp3", tag |-> EmptyTag, meta |-> <<>>]
Mp3Full == [kind |-> "mp3", meta |-> <<>>,
            tag |-> [TIT2 |-> <<[Text |-> Str_O]>>, TALB |-> <<[Text |-> Str_L]>>,
                     TPE1 |-> <<[Text |-> Str_P]>>,
                     COMM |-> <<[Encoding |-> "ISO", Language |-> Str_eng,
                                 Description |-> <<>>, Text |-> Str_c]>>,
                     APIC |-> <<OldFrontCover, OldBackCover>>]]
Mp3Blank == [kind |-> "mp3", meta |-> <<>>,
             tag |-> [EmptyTag EXCEPT !.TIT2 = <<[Text |-> <<>>]>>,
                                      !.TALB = <<[Text |-> <<>>]>>,
                                      !.TPE1 = <<[Text |-> <<>>]>>,
                                      !.COMM = <<[Encoding |-> "ISO", Language |-> Str_XXX,
                                                  Description |-> <<>>, Text |-> <<>>]>>]]

StreamInfoBlock == [Type |-> FlacStreamInfo, Data |-> <<16, 0>>]
OldPictureBlock ==
    PictureMarshal([PictureType |-> PictureTypeFrontCover, MIME |-> Str_png,
                    Description |-> <<>>, Width |-> 9, Height |-> 9,
                    ColorDepth |-> ImageColorDepth, IndexedColorCount |-> 0,
                    ImageData |-> ImgOld])

\* FLAC files: without a comment block; fully tagged; two comment blocks, the
\* first with a lower-case key and an empty value; an album and a comment
\* without "=";
\* a comment block that does not parse.
FlacBare == [kind |-> "flac", tag |-> EmptyTag, meta |-> <<StreamInfoBlock>>]
FlacFull == [kind |-> "flac", tag |-> EmptyTag,
             meta |-> <<StreamInfoBlock,
                        VorbisMarshal([Vendor |-> Str_P,
                                       Comments |-> <<KV(Str_TITLE, Str_O), KV(Str_ALBUM, Str_L),
                                                      KV(Str_ARTIST, Str_P), KV(Str_ARTIST, Str_Q),
                                                      KV(Str_COMMENT, Str_c)>>]),
                        OldPictureBlock>>]
FlacTwo == [kind |-> "flac", tag |-> EmptyTag,
            meta |-> <<StreamInfoBlock,
                       VorbisMarshal([Vendor |-> Str_P,
                                      Comments |-> <<KV(Str_title, Str_O), KV(Str_ALBUM, <<>>)>>]),
                       VorbisMarshal([Vendor |-> Str_Q,
                                      Comments |-> <<KV(Str_TITLE, Str_L)>>])>>]
FlacNoEq == [kind |-> "flac", tag |-> EmptyTag,
             meta |-> <<StreamInfoBlock,
                        VorbisMarshal([Vendor |-> Str_P,
                                       Comments |-> <<KV(Str_ALBUM, Str_L), Str_c>>])>>]
FlacLongS == [kind |-> "flac", tag |-> EmptyTag,
              meta |-> <<StreamInfoBlock,
                         VorbisMarshal([Vendor |-> Str_P,
                                        Comments |-> <<KV(Str_ARTIlongsT, Str_P)>>])>>]
FlacBad == [kind |-> "flac", tag |-> EmptyTag,
            meta |-> <<StreamInfoBlock, [Type |-> FlacVorbisComment, Data |-> <<9, 0, 0, 0, 1>>]>>]

InitFiles == {Mp3Bare, Mp3Full, Mp3Blank, FlacBare, FlacFull, FlacTwo, FlacNoEq, FlacLongS,
              FlacBad, NoFile}

FormatNames == {audioFormatMp3, Str_MP3, Str_Mp3, audioFormatFlac, Str_FLAC, Str_fLaC,
                Str_ogg, Str_mp3x, Str_Auml, Str_FLACxFF, <<>>}
Titles == {<<>>, Str_x, Str_y}
Albums == {Str_aEQb}
ArtistLists == {<<>>, <<Str_A>>, <<Str_A, Str_B, Str_C>>}
Comments == {Str_c}
Covers == {[buf |-> ImgPng, mime |-> Str_png], [buf |-> ImgJunk, mime |-> Str_png],
           [buf |-> ImgJpg, mime |-> Str_Sentinel]}
Urls == {Str_url1, Str_url2}
SaveOutcomes == {"ok", "failEarly", "failLate"}
CloseErrors == {Nil, Err("ErrClose")}
IoErrors == {Nil, Err("ErrIo")}

InitWith(paths, sessions, files) ==
    /\ file \in [paths -> files]
    /\ orig = file
    /\ sess = [s \in sessions |-> NoSession]
    /\ ret = NoRet
    /\ ioLog = {}

\* Every call a caller can make on session s.
Calls(s, paths) ==
    \/ \E input \in paths, format \in FormatNames : CallNewTagger(s, input, format)
    \/ \E c \in Covers : Mp3SetCover(s, c.buf, c.mime)
    \/ \E u \in Urls : Mp3SetCoverUrl(s, u)
    \/ \E title \in Titles : Mp3SetTitle(s, title)
    \/ \E album \in Albums : Mp3SetAlbum(s, album)
    \/ \E artists \in ArtistLists : Mp3SetArtist(s, artists)
    \/ \E comment \in Comments : Mp3SetComment(s, comment)
    \/ \E o \in SaveOutcomes, e \in CloseErrors : Mp3Save(s, o, e)
    \/ \E c \in Covers : FlacSetCover(s, c.buf, c.mime)
    \/ \E u \in Urls : FlacSetCoverUrl(s, u)
    \/ \E title \in Titles : FlacSetTitle(s, title)
    \/ \E album \in Albums : FlacSetAlbum(s, album)
    \/ \E artists \in ArtistLists : FlacSetArtist(s, artists)
    \/ \E comment \in Comments : FlacSetComment(s, comment)
    \/ \E e \in IoErrors : FlacSave(s, e)

(***************************************************************************)
(* Spec: one caller with one session on one path.                          *)
(***************************************************************************)
Init == InitWith({"p1"}, {"s1"}, InitFiles)

Next == Calls("s1", {"p1"})

Spec == Init /\ [][Next]_vars

(***************************************************************************)
(* Reading the state: the values a tagger or a file holds for a field.     *)
(***************************************************************************)
Sessions == DOMAIN sess

TextSetters == {"SetTitle", "SetAlbum", "SetArtist", "SetComment"}

FieldOf(op) ==
    CASE op = "SetTitle" -> "Title"
      [] op = "SetAlbum" -> "Album"
      [] op = "SetArtist" -> "Artist"
      [] op = "SetComment" -> "Comment"

FrameIdOf(field) ==
    CASE field = "Title" -> "TIT2"
      [] field = "Album" -> "TALB"
      [] field = "Artist" -> "TPE1"
      [] field = "Comment" -> "COMM"

KeyOf(field) ==
    CASE field = "Title" -> Str_TITLE
      [] field = "Album" -> Str_ALBUM
      [] field = "Artist" -> Str_ARTIST
      [] field = "Comment" -> Str_COMMENT

\* The texts of the frames of one ID, in order.
Mp3Values(tag, field) ==
    LET fs == tag[FrameIdOf(field)] IN [i \in 1..Len(fs) |-> fs[i].Text]

RECURSIVE EntriesOf(_, _)
\* The values of the "KEY=value" comments whose key is the given one in any
\* casing, in order; comments without "=" are skipped.
EntriesOf(comments, key) ==
    IF comments = <<>> THEN <<>>
    ELSE LET c == Head(comments)
             i == IndexByte(c, Str_eq)
             here == IF i > 0 /\ EqualFold(SubSeq(c, 1, i - 1), key)
                     THEN <<SubSeq(c, i + 1, Len(c))>> ELSE <<>>
         IN here \o EntriesOf(Tail(comments), key)

\* Whether some comment has no "=".
Malformed(cmts) == \E i \in 1..Len(cmts.Comments) : IndexByte(cmts.Comments[i], Str_eq) = 0

Values(t, field) ==
    IF t.kind = "mp3" THEN Mp3Values(t.tag, field)
    ELSE EntriesOf(t.cmts.Comments, KeyOf(field))

\* The comment blocks of a chain, in order.
CommentBlocks(meta) == SelectSeq(meta, LAMBDA b : b.Type = FlacVorbisComment)
PictureBlocks(meta) == SelectSeq(meta, LAMBDA b : b.Type = FlacPicture)

\* What a file holds for a field, read as container kind: the frames of an
\* MP3 file; for FLAC the values of block number n among the comment blocks.
FileValues(f, kind, field, n) ==
    IF kind = "mp3" THEN Mp3Values(f.tag, field)
    ELSE LET bs == CommentBlocks(f.meta)
         IN IF n > Len(bs) \/ n < 1 THEN <<>>
            ELSE LET c == VorbisParse(bs[n])
                 IN IF c.err # Nil THEN <<>> ELSE EntriesOf(c.cmts.Comments, KeyOf(field))

HasNonEmpty(vals) == \E i \in 1..Len(vals) : vals[i] # <<>>

\* The fields the claims about text setters range over: FLAC has no comment
\* field.
FieldsOf(kind) == IF kind = "mp3" THEN {"Title", "Album", "Artist", "Comment"}
                  ELSE {"Title", "Album", "Artist"}

\* A session whose Save has rewritten the file.
Saved(s) == ret.op = "Save" /\ ret.s = s /\ ret.wrote

(***************************************************************************)
(* C1.                                                                     *)
(***************************************************************************)
\* What C1 asks of session s and field: it was loaded with a non-empty value,
\* so the tagger still holds the loaded values, the file holds them too (in
\* the first comment block and, once Save has written, in the block Save
\* appended), and a setter call for the field has returned an error in errs.
C1_Holds(s, field, errs) ==
    LET t == sess[s].t
        was == Values(sess[s].loaded, field)
        f == file[t.path]
    IN (sess[s].state # "none" /\ field \in FieldsOf(t.kind) /\ HasNonEmpty(was)) =>
          /\ Values(t, field) = was
          /\ FileValues(f, t.kind, field, 1) = was
          /\ (Saved(s) /\ t.kind = "flac") =>
                FileValues(f, t.kind, field, Len(CommentBlocks(f.meta))) = was
          /\ (ret.s = s /\ ret.op \in TextSetters /\ FieldOf(ret.op) = field) =>
                ret.err \in errs

\* C1 as stated: a field loaded with a non-empty value keeps its loaded
\* value(s) through any setter calls and finalize, and its setter returns
\* success.
C1_AsStated == \A s \in Sessions : \A field \in {"Title", "Album", "Artist", "Comment"} :
    C1_Holds(s, field, {Nil})

\* C1 amended: a field loaded with a non-empty value keeps its loaded
\* value(s) through any setter calls and finalize; its setter writes nothing
\* and returns success, except that on FLAC it returns the query's error when
\* the loaded comment block has an entry without "=".
C1_NonDestructiveMerge == \A s \in Sessions : \A field \in {"Title", "Album", "Artist", "Comment"} :
    C1_Holds(s, field,
             IF sess[s].t.kind = "flac" /\ Malformed(sess[s].loaded.cmts)
             THEN {Err("ErrorMalformedComment")} ELSE {Nil})

\* A session loaded with a title was asked to set another one and has saved.
C1_Witness == \E s \in Sessions :
    /\ Saved(s)
    /\ HasNonEmpty(Values(sess[s].loaded, "Title"))
    /\ sess[s].titleArgs # <<>>
    /\ sess[s].titleArgs[1] \notin {Values(sess[s].loaded, "Title")[1], <<>>}

(***************************************************************************)
(* C2.                                                                     *)
(***************************************************************************)
\* What C2 asks of session s once setTitle(x) has been called twice, with
\* or without further setTitle calls: exactly one stored title, equal to x.
C2_Holds(s) ==
    LET args == sess[s].titleArgs
    IN (Len(args) >= 2 /\ args[2] = args[1]) => Values(sess[s].t, "Title") = <<args[1]>>

\* C2 as stated: on a session loaded without a title, setTitle(x) twice
\* leaves exactly one title x, and so does a following setTitle(y), for
\* every x and every y different from x.
C2_AsStated == \A s \in Sessions :
    Values(sess[s].loaded, "Title") = <<>> => C2_Holds(s)

\* C2 amended: the same for every x that an MP3 session is given non-empty
\* (the empty title does not count as present on MP3), on a FLAC session
\* whose loaded comment block has no entry without "=" (the query fails
\* otherwise and nothing is written).
C2_FirstWriteWins == \A s \in Sessions :
    ( /\ Values(sess[s].loaded, "Title") = <<>>
      /\ sess[s].t.kind = "mp3" => (sess[s].titleArgs # <<>> /\ sess[s].titleArgs[1] # <<>>)
      /\ sess[s].t.kind = "flac" => ~Malformed(sess[s].loaded.cmts) )
    => C2_Holds(s)

\* setTitle(x), setTitle(x), setTitle(y) with y # x have been called on a
\* session loaded without a title.
C2_Witness == \E s \in Sessions :
    /\ Values(sess[s].loaded, "Title") = <<>>
    /\ Len(sess[s].titleArgs) = 3
    /\ sess[s].titleArgs[1] = sess[s].titleArgs[2]
    /\ sess[s].titleArgs[3] # sess[s].titleArgs[1]
    /\ sess[s].titleArgs[1] # <<>>
    /\ ret.op = "SetTitle"

(***************************************************************************)
(* C3.                                                                     *)
(***************************************************************************)
\* C3: a setArtist([a1..an]) call that succeeded on a session holding no
\* artist entries, followed by finalize, persists exactly the n entries
\* a1..an in order (any setArtist call in between finds the entries there
\* and writes nothing).
C3_ArtistOrdering == \A s \in Sessions :
    ( /\ Saved(s)
      /\ sess[s].artistFresh # <<>>
      /\ sess[s].artistFresh[1].err = Nil )
    => LET f == file[sess[s].t.path]
       IN FileValues(f, sess[s].t.kind, "Artist", Len(CommentBlocks(f.meta)))
             = sess[s].artistFresh[1].arg

(***************************************************************************)
(* C4.                                                                     *)
(***************************************************************************)
\* C4: Mp3Tagger.Save runs both the serialize step and the release step, and
\* when the serialize step has failed the error it returns is that failure.
C4_FinalizeFirstFailure ==
    (ret.op = "Save" /\ ret.pre.t.kind = "mp3") =>
        /\ ret.io.saveRan
        /\ ret.io.closeRan
        /\ ret.io.save # Nil => ret.err = ret.io.save

(***************************************************************************)
(* Reading pictures: the picture entries a tagger or a file holds, as      *)
(* [PictureType, MIME, Description, Data].                                 *)
(***************************************************************************)
\* Decoding a picture block as a FLAC reader does: the inverse layout of
\* Marshal (type, MIME, description, four uint32 fields, image data).
PictureParse(block) ==
    LET d == block.Data
        mimeLen == DecodeB(SubSeq(d, 5, 8))
        descAt == 8 + mimeLen
        descLen == DecodeB(SubSeq(d, descAt + 1, descAt + 4))
        dataAt == descAt + 4 + descLen + 16
        dataLen == DecodeB(SubSeq(d, dataAt + 1, dataAt + 4))
    IN [PictureType |-> DecodeB(SubSeq(d, 1, 4)),
        MIME |-> SubSeq(d, 9, 8 + mimeLen),
        Description |-> SubSeq(d, descAt + 5, descAt + 4 + descLen),
        Data |-> SubSeq(d, dataAt + 5, dataAt + 4 + dataLen)]

FramePicture(pf) ==
    [PictureType |-> pf.PictureType, MIME |-> pf.MimeType,
     Description |-> pf.Description, Data |-> pf.Picture]

Mp3Pics(tag) == [i \in 1..Len(tag.APIC) |-> FramePicture(tag.APIC[i])]
FlacPics(meta) ==
    LET bs == PictureBlocks(meta) IN [i \in 1..Len(bs) |-> PictureParse(bs[i])]

Pics(t) == IF t.kind = "mp3" THEN Mp3Pics(t.tag) ELSE FlacPics(t.meta)
FilePics(f, kind) == IF kind = "mp3" THEN Mp3Pics(f.tag) ELSE FlacPics(f.meta)

\* The picture entry a successful cover call asks for.
Asked(call) ==
    [PictureType |-> PictureTypeFrontCover,
     MIME |-> IF call.op = "SetCover" THEN call.arg.mime ELSE Str_Sentinel,
     Description |-> Str_FrontCover,
     Data |-> IF call.op = "SetCover" THEN call.arg.buf ELSE call.arg]

AskedAll(calls) == [i \in 1..Len(calls) |-> Asked(calls[i])]

IsFrontCover(p) == p.PictureType = PictureTypeFrontCover /\ p.Description = Str_FrontCover

(***************************************************************************)
(* C5.                                                                     *)
(***************************************************************************)
\* The pictures session s holds, and its file once Save has written, are want.
C5_Holds(s, want) ==
    /\ Pics(sess[s].t) = want
    /\ Saved(s) => FilePics(file[sess[s].t.path], sess[s].t.kind) = want

\* C5: on either encoder the pictures a session holds, and those of its file
\* once Save has written, are the loaded ones followed by one new front-cover
\* entry per successful set-cover call, in call order.  Mp3Tagger.SetCover
\* and SetCoverUrl break it: the picture frame they add takes the place of
\* the frame with the same picture type and description.
C5_AsStated == \A s \in Sessions :
    sess[s].state # "none" =>
        C5_Holds(s, Pics(sess[s].loaded) \o AskedAll(sess[s].coverCalls))

(***************************************************************************)
(* C6.                                                                     *)
(***************************************************************************)
\* The entry the last cover call of session s has left among pics: the last
\* entry on FLAC, the front-cover entry on MP3.
Produced(s, pics) ==
    IF sess[s].t.kind = "flac" THEN pics[Len(pics)]
    ELSE pics[CHOOSE i \in 1..Len(pics) : IsFrontCover(pics[i])]

\* C6: after setCoverByUrl(u) and finalize the file holds a front-cover entry
\* with MIME "-->" and the bytes of u as payload; after setCover(bytes, mime)
\* it holds the given mime and bytes, so the entry carries the sentinel only
\* if mime is "-->".
C6_SentinelRoundTrip == \A s \in Sessions :
    (Saved(s) /\ sess[s].coverCalls # <<>>) =>
        LET call == sess[s].coverCalls[Len(sess[s].coverCalls)]
            pics == FilePics(file[sess[s].t.path], sess[s].t.kind)
        IN /\ pics # <<>>
           /\ \/ sess[s].t.kind = "flac"
              \/ \E i \in 1..Len(pics) : IsFrontCover(pics[i])
           /\ LET p == Produced(s, pics)
              IN /\ p.PictureType = PictureTypeFrontCover
                 /\ call.op = "SetCoverUrl" => (p.MIME = Str_Sentinel /\ p.Data = call.arg)
                 /\ call.op = "SetCover" =>
                       /\ p.MIME = call.arg.mime
                       /\ p.Data = call.arg.buf
                       /\ (p.MIME = Str_Sentinel) <=> (call.arg.mime = Str_Sentinel)

\* setCoverByUrl was the last cover call before a Save that wrote.
C6_Witness == \E s \in Sessions :
    /\ Saved(s)
    /\ sess[s].coverCalls # <<>>
    /\ sess[s].coverCalls[Len(sess[s].coverCalls)].op = "SetCoverUrl"
    /\ sess[s].coverCalls[Len(sess[s].coverCalls)].arg = Str_url1

(***************************************************************************)
(* C7.                                                                     *)
(***************************************************************************)
\* format is name in some casing: the same length, each byte the lower-case
\* byte of name or its upper-case letter.
IsCasingOf(format, name) ==
    /\ Len(format) = Len(name)
    /\ \A i \in 1..Len(name) :
          \/ format[i] = name[i]
          \/ name[i] >= 97 /\ name[i] <= 122 /\ format[i] = name[i] - 32

\* msg carries name: name occurs in it as a contiguous run of bytes.
Carries(msg, name) ==
    \E i \in 0..(Len(msg) - Len(name)) : SubSeq(msg, i + 1, i + Len(name)) = name

\* What a NewTagger call with the format it was given has returned.
C7_Returned ==
    ret.op = "NewTagger" =>
        LET format == ret.arg[2]
        IN /\ IsCasingOf(format, audioFormatMp3) => ret.iface = "*Mp3Tagger"
           /\ IsCasingOf(format, audioFormatFlac) => ret.iface = "*FlacTagger"
           /\ (~IsCasingOf(format, audioFormatMp3) /\ ~IsCasingOf(format, audioFormatFlac)) =>
                 /\ ret.err.kind = "errors.New"
                 /\ Carries(ret.err.msg, format)
                 /\ ret.iface = "nil"
                 /\ sess[ret.s].state = "none"

\* A NewTagger call with a name that is no casing of "mp3" or "flac" makes no
\* session, reads no file and writes no file.
C7_NoIo ==
    (ret'.op = "NewTagger" /\ ~IsCasingOf(ret'.arg[2], audioFormatMp3)
                           /\ ~IsCasingOf(ret'.arg[2], audioFormatFlac)) =>
        /\ ioLog' = ioLog
        /\ file' = file
        /\ sess' = sess

\* C7: NewTagger compares the format name case-insensitively: any casing of
\* "mp3" invokes the MP3 constructor, any casing of "flac" the FLAC
\* constructor, and every other name fails with an error carrying the name,
\* without a session and without reading or writing the file.
C7_FormatDispatch == [](C7_Returned) /\ [][C7_NoIo]_vars

\* NewTagger has been given "ogg" after an earlier call that read the path
\* and failed.
C7_Witness ==
    /\ ret.op = "NewTagger"
    /\ ret.arg[2] = Str_ogg
    /\ ret.err.kind = "errors.New"
    /\ ioLog # {}

(***************************************************************************)
(* C8.                                                                     *)
(***************************************************************************)
\* C8: construction and setter calls leave every file as it is; a file
\* changes only in a Save step.
C8_NoPersistenceBeforeFinalize == [][ret'.op # "Save" => file' = file]_vars

\* A session has been asked to set fields, holds them, and the file is still
\* what it was.
C8_Witness == \E s \in Sessions :
    /\ sess[s].state = "held"
    /\ sess[s].t # sess[s].loaded
    /\ Cardinality(sess[s].called) >= 2
    /\ file = orig

(***************************************************************************)
(* C9.                                                                     *)
(***************************************************************************)
\* C9: FlacTagger.SetComment returns success and leaves the comment map and
\* the block chain as they were; the comment block Save writes holds the
\* COMMENT values of the loaded block and no other.
C9_FlacCommentNoop == \A s \in Sessions :
    sess[s].t.kind = "flac" =>
        /\ (ret.op = "SetComment" /\ ret.s = s) =>
              /\ ret.err = Nil
              /\ sess[s].t.cmts = ret.pre.t.cmts
              /\ sess[s].t.meta = ret.pre.t.meta
        /\ Values(sess[s].t, "Comment") = Values(sess[s].loaded, "Comment")
        /\ Saved(s) =>
              LET f == file[sess[s].t.path]
              IN FileValues(f, "flac", "Comment", Len(CommentBlocks(f.meta)))
                    = Values(sess[s].loaded, "Comment")

\* A FLAC session loaded without a COMMENT entry was asked to set one and has
\* saved.
C9_Witness == \E s \in Sessions :
    /\ sess[s].t.kind = "flac"
    /\ Saved(s)
    /\ "SetComment" \in sess[s].called
    /\ Values(sess[s].loaded, "Comment") = <<>>

(***************************************************************************)
(* SpecRace: two callers, each with a session, on the same path.           *)
(***************************************************************************)
RaceFiles == {Mp3Bare, Mp3Full, FlacBare, FlacFull}

InitRace == InitWith({"p1"}, {"s1", "s2"}, RaceFiles)

RaceCalls(s) ==
    \/ \E format \in {audioFormatMp3, audioFormatFlac} : CallNewTagger(s, "p1", format)
    \/ /\ sess[s].ncalls < MaxPairCalls
       /\ \/ Mp3SetTitle(s, Str_x)
          \/ Mp3SetAlbum(s, Str_aEQb)
          \/ \E o \in SaveOutcomes, e \in CloseErrors : Mp3Save(s, o, e)
          \/ FlacSetTitle(s, Str_x)
          \/ FlacSetAlbum(s, Str_aEQb)
          \/ \E e \in IoErrors : FlacSave(s, e)

NextRace == \E s \in {"s1", "s2"} : RaceCalls(s)

SpecRace == InitRace /\ [][NextRace]_vars

(***************************************************************************)
(* C10.                                                                    *)
(***************************************************************************)
\* Sessions a and b, of the same encoder, were both loaded before any Save
\* ran on their path, have been asked to set different fields, and have both
\* saved without an I/O failure; b saved last.
C10_Raced(a, b) ==
    /\ a # b
    /\ sess[a].nsaves > 0 /\ sess[b].nsaves > 0
    /\ sess[a].t.kind = sess[b].t.kind
    /\ sess[a].t.path = sess[b].t.path
    /\ ~sess[a].lateLoad /\ ~sess[b].lateLoad
    /\ sess[a].called # {} /\ sess[b].called # {}
    /\ sess[a].called \cap sess[b].called = {}
    /\ \A s \in {a, b} : sess[s].saved[1].io.save = Nil /\ sess[s].saved[1].io.close = Nil
    /\ ret.op = "Save" /\ ret.s = b

\* C10: the file then holds the tag data of the session that saved last and,
\* for every field only the other session has set, the values as they were
\* loaded; both Save calls have returned success.
C10_LostUpdate == \A a, b \in Sessions :
    C10_Raced(a, b) =>
        LET f == file[sess[b].t.path]
            kind == sess[b].t.kind
        IN /\ IF kind = "mp3" THEN f.tag = sess[b].t.tag ELSE f.meta = sess[b].t.meta
           /\ \A op \in sess[a].called :
                 LET n == IF kind = "mp3" THEN 1 ELSE Len(CommentBlocks(f.meta))
                 IN FileValues(f, kind, FieldOf(op), n) = Values(sess[b].loaded, FieldOf(op))
           /\ sess[a].saved[1].err = Nil
           /\ sess[b].saved[1].err = Nil

\* The race has happened and the session that saved first had stored a
\* title that the file does not hold.
C10_Witness == \E a, b \in Sessions :
    /\ C10_Raced(a, b)
    /\ sess[a].called = {"SetTitle"}
    /\ Values(sess[a].t, "Title") = <<Str_x>>
    /\ Values(sess[b].loaded, "Title") = <<>>
    /\ Values(sess[b].t, "Album") = <<Str_aEQb>>

(***************************************************************************)
(* C12.                                                                    *)
(***************************************************************************)
\* chain is head followed by further blocks.
StartsWith(chain, head) ==
    /\ Len(chain) >= Len(head)
    /\ SubSeq(chain, 1, Len(head)) = head

\* C12: a FlacTagger.Save call leaves the chain it found, which is the loaded
\* chain followed by one picture block per successful cover call and one
\* comment block per earlier Save of the session, followed by exactly one new
\* block, a comment block that decodes to the session's comment map; no block
\* is removed, so the chain holds one comment block more than the loaded one
\* for each Save made (two after the first Save of a file loaded with one),
\* the loaded ones where they were; and when Save has written, the file
\* holds that chain.
C12_FinalizeLayout == \A s \in Sessions :
    (ret.op = "Save" /\ ret.s = s /\ sess[s].t.kind = "flac") =>
        LET was == sess[s].loaded.meta
            pre == ret.pre.t.meta
            now == sess[s].t.meta
            last == now[Len(now)]
        IN /\ Len(now) = Len(pre) + 1
           /\ StartsWith(now, pre)
           /\ last.Type = FlacVorbisComment
           /\ VorbisParse(last) = [err |-> Nil, cmts |-> ret.pre.t.cmts]
           /\ StartsWith(pre, was)
           /\ Len(pre) = Len(was) + Len(sess[s].coverCalls) + (sess[s].nsaves - 1)
           /\ \A i \in (Len(was) + 1)..Len(pre) :
                  pre[i].Type \in {FlacPicture, FlacVorbisComment}
           /\ Len(CommentBlocks(now)) = Len(CommentBlocks(was)) + sess[s].nsaves
           /\ (sess[s].nsaves = 1 /\ Len(CommentBlocks(was)) = 1)
                  => Len(CommentBlocks(now)) = 2
           /\ \A i \in 1..Len(was) : now[i] = was[i]
           /\ Saved(s) => file[sess[s].t.path].meta = now

\* A FLAC session loaded with a comment block has been given a cover and new
\* entries for its comment map, and has saved: the file holds one comment
\* block more than it did.
C12_Witness == \E s \in Sessions :
    /\ sess[s].t.kind = "flac"
    /\ Saved(s)
    /\ Len(CommentBlocks(sess[s].loaded.meta)) >= 1
    /\ sess[s].coverCalls # <<>>
    /\ sess[s].t.cmts # sess[s].loaded.cmts
    /\ Len(CommentBlocks(file[sess[s].t.path].meta))
          = Len(CommentBlocks(sess[s].loaded.meta)) + 1

(***************************************************************************)
(* C13.                                                                    *)
(***************************************************************************)
\* C13: a FlacTagger.SetCover call whose image bytes do not decode returns
\* the error and leaves the session (block chain, comment map, path) and the
\* file as they were, the session still open; a call whose bytes decode,
\* also after a failed one, returns success and leaves the chain with exactly
\* one more block, a picture block holding the given bytes and MIME, and the
\* comment map as it was.
C13_CoverFailureNonFatal == \A s \in Sessions :
    (ret.op = "SetCover" /\ ret.s = s /\ ret.pre.t.kind = "flac") =>
        LET pre == ret.pre.t
            now == sess[s].t
        IN /\ sess[s].state = "held"
           /\ ret.err # Nil <=> ~ImageDecodes(ret.arg.buf)
           /\ ret.err # Nil => (now = pre /\ sess[s].coverCalls = ret.pre.coverCalls)
           /\ ret.err = Nil =>
                 /\ Len(now.meta) = Len(pre.meta) + 1
                 /\ StartsWith(now.meta, pre.meta)
                 /\ now.meta[Len(now.meta)].Type = FlacPicture
                 /\ LET p == PictureParse(now.meta[Len(now.meta)])
                    IN p.Data = ret.arg.buf /\ p.MIME = ret.arg.mime
                 /\ now.cmts = pre.cmts
           /\ ~ret.wrote

\* A setCover call has succeeded on a FLAC session whose earlier setCover
\* call had failed.
C13_Witness == \E s \in Sessions :
    /\ ret.op = "SetCover" /\ ret.s = s /\ ret.pre.t.kind = "flac"
    /\ ret.err = Nil
    /\ "SetCover" \in ret.pre.called
    /\ ret.pre.coverCalls = <<>>
    /\ Len(PictureBlocks(sess[s].t.meta)) = Len(PictureBlocks(sess[s].loaded.meta)) + 1

(***************************************************************************)
(* C14.                                                                    *)
(***************************************************************************)
\* The text tag.Title() or tag.Album() reports for frames fs: that of the
\* frame, the empty string without one.
ReportedText(fs) == IF fs = <<>> THEN <<>> ELSE fs[1].Text

\* C14: on MP3, setTitle(v) and setAlbum(v) leave the field holding v when the
\* text the tag reported for it was empty (no frame, or a frame with empty
\* text) and leave the tag as it was otherwise; setArtist and setComment
\* leave the tag as it was when it held a frame of that type, whatever its
\* text, and store what they were given when it held none.
C14_Mp3PresenceChecks == \A s \in Sessions :
    (ret.s = s /\ ret.op \in TextSetters /\ ret.pre.t.kind = "mp3") =>
        LET pre == ret.pre.t.tag
            now == sess[s].t.tag
            id == FrameIdOf(FieldOf(ret.op))
        IN /\ ret.err = Nil
           /\ \A other \in DOMAIN pre : other # id => now[other] = pre[other]
           /\ ret.op \in {"SetTitle", "SetAlbum"} =>
                 IF ReportedText(pre[id]) = <<>>
                 THEN Mp3Values(now, FieldOf(ret.op)) = <<ret.arg>>
                 ELSE now = pre
           /\ ret.op = "SetArtist" =>
                 IF Len(pre[id]) = 0
                 THEN /\ ret.arg = <<>> <=> now[id] = <<>>
                      /\ \A i \in 1..Len(now[id]) :
                            \E j \in 1..Len(ret.arg) : now[id][i].Text = ret.arg[j]
                 ELSE now = pre
           /\ ret.op = "SetComment" =>
                 IF Len(pre[id]) = 0
                 THEN Mp3Values(now, "Comment") = <<ret.arg>>
                 ELSE now = pre

\* On an MP3 session loaded with title and artist frames of empty text, a
\* setTitle call has stored its title and a setArtist call with artists has
\* left the empty artist frame.
C14_Witness == \E s \in Sessions :
    /\ sess[s].t.kind = "mp3"
    /\ Mp3Values(sess[s].loaded.tag, "Title") = <<<<>>>>
    /\ Mp3Values(sess[s].loaded.tag, "Artist") = <<<<>>>>
    /\ ret.op = "SetArtist" /\ ret.s = s /\ ret.arg # <<>>
    /\ Mp3Values(sess[s].t.tag, "Artist") = <<<<>>>>
    /\ Mp3Values(sess[s].t.tag, "Title") = <<Str_x>>

(***************************************************************************)
(* C15.                                                                    *)
(***************************************************************************)
FlacTextSetters == {"SetTitle", "SetAlbum", "SetArtist"}

\* The "KEY=value" entries a setter call is to add: one for a title or an
\* album, one per artist in order.
EntriesAsked(op, arg) ==
    IF op = "SetArtist" THEN [i \in 1..Len(arg) |-> KV(Str_ARTIST, arg[i])]
    ELSE <<KV(KeyOf(FieldOf(op)), arg)>>

\* C15 as stated: a FLAC setTitle, setAlbum or setArtist call appends its
\* entries to the comment map when the map held no value for the key, and
\* leaves the map as it was when it held at least one value, the empty string
\* included; so once setTitle("") has been called on a session loaded without
\* a title, the title stays the empty string whatever setTitle calls follow.
C15_AsStated == \A s \in Sessions :
    /\ (ret.s = s /\ ret.op \in FlacTextSetters /\ ret.pre.t.kind = "flac") =>
          LET pre == ret.pre.t
              now == sess[s].t
          IN IF EntriesOf(pre.cmts.Comments, KeyOf(FieldOf(ret.op))) = <<>>
             THEN now = [pre EXCEPT !.cmts.Comments = @ \o EntriesAsked(ret.op, ret.arg)]
             ELSE now = pre
    /\ ( /\ sess[s].t.kind = "flac"
         /\ Values(sess[s].loaded, "Title") = <<>>
         /\ sess[s].titleArgs # <<>>
         /\ sess[s].titleArgs[1] = <<>> )
       => Values(sess[s].t, "Title") = <<<<>>>>

\* C15 amended: a FLAC setTitle, setAlbum or setArtist call appends its
\* entries to the comment map exactly when the map held no value for the key
\* (the key matched under case folding) and no entry without "=", and
\* returns success then; it leaves the map as it was when the map held at
\* least one value for the key, the empty string included, and also when the
\* map held an entry without "=" (the query then fails, whether or not the
\* key has a value).  So once setTitle("") has been called on a session
\* loaded without a title, the title stays the empty string whatever
\* setTitle calls follow, or stays absent when the loaded map holds an entry
\* without "=".
C15_FlacPresenceCheck == \A s \in Sessions :
    /\ (ret.s = s /\ ret.op \in FlacTextSetters /\ ret.pre.t.kind = "flac") =>
          LET pre == ret.pre.t
              now == sess[s].t
          IN IF /\ EntriesOf(pre.cmts.Comments, KeyOf(FieldOf(ret.op))) = <<>>
                /\ ~Malformed(pre.cmts)
             THEN /\ now = [pre EXCEPT !.cmts.Comments = @ \o EntriesAsked(ret.op, ret.arg)]
                  /\ ret.err = Nil
             ELSE now = pre
    /\ ( /\ sess[s].t.kind = "flac"
         /\ Values(sess[s].loaded, "Title") = <<>>
         /\ sess[s].titleArgs # <<>>
         /\ sess[s].titleArgs[1] = <<>> )
       => Values(sess[s].t, "Title")
             = IF Malformed(sess[s].loaded.cmts) THEN <<>> ELSE <<<<>>>>

\* setTitle("") and then setTitle(y) with a non-empty y have been called on a
\* FLAC session loaded without a title.
C15_Witness == \E s \in Sessions :
    /\ sess[s].t.kind = "flac"
    /\ Values(sess[s].loaded, "Title") = <<>>
    /\ Len(sess[s].titleArgs) = 2
    /\ sess[s].titleArgs[1] = <<>>
    /\ sess[s].titleArgs[2] = Str_y
    /\ ret.op = "SetTitle" /\ ret.s = s /\ ret.err = Nil
    /\ Values(sess[s].t, "Title") = <<<<>>>>

(***************************************************************************)
(* C16.                                                                    *)
(***************************************************************************)
\* C16: the query for TITLE, ALBUM or ARTIST fails exactly when the comment
\* map holds an entry without "="; the FLAC setter then returns the query's
\* error, ErrorMalformedComment, and leaves the comment map, the block chain
\* and the file as they were, whether or not the map holds a value for the
\* key.
C16_QueryFailurePropagates == \A s \in Sessions :
    (ret.s = s /\ ret.op \in FlacTextSetters /\ ret.pre.t.kind = "flac") =>
        /\ Malformed(ret.pre.t.cmts) <=> ret.err # Nil
        /\ ret.err # Nil =>
              /\ ret.err = Err("ErrorMalformedComment")
              /\ sess[s].t = ret.pre.t
              /\ sess[s].state = "held"
              /\ ~ret.wrote

\* A setArtist call with artists has failed on a FLAC session whose comment
\* map holds no artist and an entry without "=".
C16_Witness == \E s \in Sessions :
    /\ ret.op = "SetArtist" /\ ret.s = s /\ ret.pre.t.kind = "flac"
    /\ ret.arg # <<>>
    /\ ret.err = Err("ErrorMalformedComment")
    /\ Values(ret.pre.t, "Artist") = <<>>
    /\ Values(sess[s].t, "Artist") = <<>>

(***************************************************************************)
(* C17.                                                                    *)
(***************************************************************************)
\* A file flac.ParseFile reads: it is there and starts with the FLAC marker.
ReadableFlac(f) == f.kind = "flac" /\ f.tag = EmptyTag

\* C17: a NewTagger call for FLAC on a readable file without a comment block
\* returns a session with no comment entries and no error; on a file with
\* comment blocks it returns a session whose comment map is decoded from the
\* first of them, or the decoder's error and no session when that block does
\* not decode; on a file that cannot be read as FLAC it returns an error and
\* no session.  The session's chain is the file's, and the file is left as
\* it was.
C17_FlacConstruction == \A s \in Sessions :
    (ret.op = "NewTagger" /\ ret.s = s /\ IsCasingOf(ret.arg[2], audioFormatFlac)
                          /\ ret.pre.state = "none") =>
        LET f == file[ret.arg[1]]
            blocks == CommentBlocks(f.meta)
            made == sess[s].state = "held" /\ sess[s].t.kind = "flac"
                    /\ sess[s].t.path = ret.arg[1] /\ sess[s].t.meta = f.meta
            none == ret.err # Nil /\ sess[s] = ret.pre
        IN /\ file = orig
           /\ ~ReadableFlac(f) => none
           /\ (ReadableFlac(f) /\ blocks = <<>>) =>
                 /\ ret.err = Nil /\ made
                 /\ sess[s].t.cmts.Comments = <<>>
           /\ (ReadableFlac(f) /\ blocks # <<>>) =>
                 LET c == VorbisParse(blocks[1])
                 IN IF c.err = Nil
                    THEN ret.err = Nil /\ made /\ sess[s].t.cmts = c.cmts
                    ELSE ret.err = c.err /\ none

\* A FLAC session has been made from a file with two comment blocks and
\* holds the title of the first.
C17_Witness == \E s \in Sessions :
    /\ ret.op = "NewTagger" /\ ret.s = s /\ ret.err = Nil
    /\ sess[s].t.kind = "flac"
    /\ Len(CommentBlocks(file[sess[s].t.path].meta)) = 2
    /\ Values(sess[s].t, "Title") = <<Str_O>>
    /\ FileValues(file[sess[s].t.path], "flac", "Title", 2) = <<Str_L>>

(***************************************************************************)
(* C18.                                                                    *)
(***************************************************************************)
AllSetters == TextSetters \cup {"SetCover", "SetCoverUrl"}

\* C18: a setter call leaves every field but its own as it was: a text
\* setter leaves the values of the other text fields and the pictures, a
\* cover setter the values of every text field; on FLAC a cover setter leaves
\* the comment map and a text setter the block chain as they were; and no
\* setter changes the file.
C18_SetterFrame == \A s \in Sessions :
    (ret.s = s /\ ret.op \in AllSetters) =>
        LET pre == ret.pre.t
            now == sess[s].t
            own == IF ret.op \in TextSetters THEN {FieldOf(ret.op)} ELSE {}
        IN /\ \A field \in {"Title", "Album", "Artist", "Comment"} \ own :
                 Values(now, field) = Values(pre, field)
           /\ ret.op \in TextSetters => Pics(now) = Pics(pre)
           /\ (now.kind = "flac" /\ ret.op \in {"SetCover", "SetCoverUrl"}) =>
                 now.cmts = pre.cmts
           /\ (now.kind = "flac" /\ ret.op \in TextSetters) => now.meta = pre.meta
           /\ now.kind = pre.kind /\ now.path = pre.path
           /\ ~ret.wrote

\* A setAlbum call has stored an album on a session that held a title and a
\* picture.
C18_Witness == \E s \in Sessions :
    /\ ret.op = "SetAlbum" /\ ret.s = s
    /\ Values(ret.pre.t, "Title") = <<Str_x>>
    /\ Pics(ret.pre.t) # <<>>
    /\ Values(ret.pre.t, "Album") = <<>>
    /\ Values(sess[s].t, "Album") = <<Str_aEQb>>

(***************************************************************************)
(* C19.                                                                    *)
(***************************************************************************)
\* The last setArtist call session record r saw while it held no artist was
\* a successful call with an empty list.
AskedNoArtists(r) ==
    /\ r.artistFresh # <<>>
    /\ r.artistFresh[1].arg = <<>>
    /\ r.artistFresh[1].err = Nil

\* C19: after a setArtist call with an empty list on a session holding no
\* artist the session still holds no artist, and a setArtist call with a
\* non-empty list that follows it stores its entries: on FLAC the artists
\* are then the list, on MP3 (where each entry is stored over the one before,
\* C3) the artist is the last entry of the list.
C19_PresenceRequeried == \A s \in Sessions :
    /\ AskedNoArtists(sess[s]) => Values(sess[s].t, "Artist") = <<>>
    /\ (ret.op = "SetArtist" /\ ret.s = s /\ ret.arg # <<>> /\ AskedNoArtists(ret.pre)) =>
          LET now == Values(sess[s].t, "Artist")
          IN /\ ret.err = Nil
             /\ now # <<>>
             /\ sess[s].t.kind = "flac" => now = ret.arg
             /\ sess[s].t.kind = "mp3" => now[Len(now)] = ret.arg[Len(ret.arg)]

\* setArtist with a list of three has followed setArtist with an empty list
\* on a session loaded without an artist.
C19_Witness == \E s \in Sessions :
    /\ ret.op = "SetArtist" /\ ret.s = s
    /\ ret.arg = <<Str_A, Str_B, Str_C>>
    /\ AskedNoArtists(ret.pre)
    /\ Values(sess[s].loaded, "Artist") = <<>>
    /\ Values(sess[s].t, "Artist") # <<>>

(***************************************************************************)
(* SpecIso: two callers, each with a session on a file of its own.         *)
(***************************************************************************)
IsoPath == [s1 |-> "p1", s2 |-> "p2"]

IsoFiles == {Mp3Bare, Mp3Full, FlacBare, FlacFull}

InitIso == InitWith({"p1", "p2"}, {"s1", "s2"}, IsoFiles)

IsoCalls(s) ==
    \/ \E format \in {audioFormatMp3, audioFormatFlac} : CallNewTagger(s, IsoPath[s], format)
    \/ /\ sess[s].ncalls < MaxPairCalls
       /\ \/ Mp3SetTitle(s, Str_x)
          \/ Mp3SetCoverUrl(s, Str_url1)
          \/ \E o \in SaveOutcomes, e \in CloseErrors : Mp3Save(s, o, e)
          \/ FlacSetTitle(s, Str_x)
          \/ FlacSetCoverUrl(s, Str_url1)
          \/ \E e \in IoErrors : FlacSave(s, e)

NextIso == \E s \in {"s1", "s2"} : IsoCalls(s)

SpecIso == InitIso /\ [][NextIso]_vars

(***************************************************************************)
(* C20.                                                                    *)
(***************************************************************************)
\* C20: with the two sessions on different files, whatever the order of
\* their calls, each session holds the tagger its own calls give when made
\* alone, and each file is what the calls of its session leave when made
\* alone: as it was at the start as long as that session has made no Save.
C20_SessionIsolation == \A s \in Sessions :
    /\ sess[s].t = sess[s].alone.t
    /\ file[IsoPath[s]] = AloneFile(sess[s].alone, IsoPath[s])
    /\ sess[s].nsaves = 0 => file[IsoPath[s]] = orig[IsoPath[s]]

\* Both sessions, one of each encoder, have called a setter and have saved,
\* and both files have changed.
C20_Witness ==
    /\ \A s \in Sessions :
          /\ sess[s].nsaves > 0
          /\ sess[s].saved[1].wrote
          /\ sess[s].called \cap {"SetTitle", "SetCoverUrl"} # {}
          /\ file[IsoPath[s]] # orig[IsoPath[s]]
    /\ sess["s1"].t.kind # sess["s2"].t.kind
    /\ file["p1"] # file["p2"]

====
